---- MODULE Spec2Model ----
(***************************************************************************)
(* A model of the visor registry library: the coordinator store as the     *)
(* library uses it (revisioned files, compare-and-set on a file's          *)
(* revision, reads at a pinned snapshot revision), the port counter        *)
(* protocol of Proc.Register, the Instance life cycle with its lookup      *)
(* index, and Store.Scale.                                                 *)
(***************************************************************************)
EXTENDS Integers, Naturals, Sequences, FiniteSets, TLC

VARIABLES
    log,      \* the coordinator store: mutation k is the one committed at revision k
    pp,       \* Proc.Register callers: position, snapshot and the ports they were given
    issued,   \* the ports claimNextPort returned, in the order their writes were committed
    hs,       \* the Instance handles (*Instance) of the callers and the call each is in
    sc,       \* the caller of Store.Scale: the call it is in and what the last one returned
    ws,       \* the goroutines running Store.WatchEvent and what their listeners received
    rg        \* the callers of App.Register, Revision.Register and Store.RegisterInstance

vars == <<log, pp, issued, hs, sc, ws, rg>>

(***************************************************************************)
(* Bounds of the model.                                                    *)
(***************************************************************************)
NumProcs == 2

Procs == 1..NumProcs

NumHandles == 2

Handles == 1..NumHandles

\* The callers of Register are given no more ports than this.
MaxPorts == 6

\* The handles commit no more mutations than this.
MaxWrites == 4

\* The handles commit no more mutations than this while all they did is claim
\* and unclaim.
MaxClaimWrites == 5

\* The store allocates no more instance ids than this.
MaxIns == 3

InsIds == 1..MaxIns

(***************************************************************************)
(* Program constants.                                                      *)
(***************************************************************************)
startPort == 8000

(***************************************************************************)
(* The coordinator store.  A path is <<directory, id, file>>.  A mutation  *)
(* is a Set (set = TRUE, with the body v) or a Del.  The revision of the   *)
(* store is the number of mutations committed.                             *)
(***************************************************************************)
nextPortPath == <<"root", 0, "next-port">>

StoreRev == Len(log)

\* The revision of the last mutation of path p at or before revision r (0: none).
LastMut(p, r) ==
    LET ks == {k \in 1..r : log[k].p = p}
    IN  IF ks = {} THEN 0 ELSE CHOOSE k \in ks : \A j \in ks : j <= k

\* Exists(p) at snapshot revision r.
ExistsAt(p, r) == LET k == LastMut(p, r) IN k # 0 /\ log[k].set

\* Get(p) at snapshot revision r; only asked of a file that exists at r.
GetAt(p, r) == log[LastMut(p, r)].v

\* The revision the store holds for p now: that of its last Set, 0 when missing.
FileRev(p) == IF ExistsAt(p, StoreRev) THEN LastMut(p, StoreRev) ELSE 0

\* A Set or Del of p sent with revision r is accepted unless p changed after r.
CasOk(p, r) == FileRev(p) <= r

\* The store after caller c's Set of p to v sent with revision r, and after its Del.
SetFile(p, v, r, c) == Append(log, [p |-> p, set |-> TRUE, v |-> v, at |-> r, by |-> c])

DelFile(p, r, c) == Append(log, [p |-> p, set |-> FALSE, v |-> <<>>, at |-> r, by |-> c])

\* The calls are those of a test program, which ends by itself.
Scripted == rg # <<>> /\ rg.test

\* The mutations the handles committed.
HandleWrites == {k \in 1..StoreRev : log[k].by \in Handles}

\* The handles have so far written start with no or one field, and claims/<host>,
\* only: their calls were Claim and Unclaim calls.
ClaimsOnly ==
    \A k \in HandleWrites :
        /\ log[k].set
        /\ log[k].p[3] \in {"start", "claims/10.0.0.1", "claims/10.0.0.2"}
        /\ Len(log[k].v) <= 1

\* A handle commits a mutation only below the bound.
CanWrite ==
    Scripted \/ Cardinality(HandleWrites) < (IF ClaimsOnly THEN MaxClaimWrites ELSE MaxWrites)

(***************************************************************************)
(* Proc.Register and claimNextPort.                                        *)
(***************************************************************************)
procPath(p, file) == <<"proc", p, file>>

\* tries counts the Sets of /next-port that the claimNextPort call of the proc
\* has had refused.
idleProc ==
    [pc |-> "idle", sp |-> 0, csp |-> 0, read |-> 0, Port |-> 0, ControlPort |-> 0,
     tries |-> 0]

\* Register, lines 81-96: FastForward, the directory of the proc must not exist.
PRegBegin(p) ==
    /\ pp[p].pc \in {"idle", "done"}
    /\ IF \E file \in {"port", "port-control", "registered"} : ExistsAt(procPath(p, file), StoreRev)
          THEN pp' = [pp EXCEPT ![p].pc = "conflict"]
          ELSE pp' = [pp EXCEPT ![p].pc = "read1", ![p].sp = StoreRev, ![p].tries = 0]
    /\ UNCHANGED <<log, issued, hs, sc, ws, rg>>

\* claimNextPort, line 409: the revision each turn of the loop reads at, and
\* what it would be without the FastForward.
ClaimRevOfCall(p) == pp[p].sp

ClaimRev(p) == StoreRev

\* claimNextPort: FastForward and read /next-port at that revision.
PClaimRead(p) ==
    /\ pp[p].pc \in {"read1", "read2"}
    /\ IF ExistsAt(nextPortPath, ClaimRev(p))
          THEN pp' = [pp EXCEPT ![p].pc = IF pp[p].pc = "read1" THEN "cas1" ELSE "cas2",
                                ![p].csp = ClaimRev(p),
                                ![p].read = GetAt(nextPortPath, ClaimRev(p))[1]]
          ELSE pp' = [pp EXCEPT ![p].pc = "error"]
    /\ UNCHANGED <<log, issued, hs, sc, ws, rg>>

\* The value claimNextPort writes back for a port it read.
NextPortAfterMissingIncrement(port) == port

NextPortAfter(port) == port + 1

\* claimNextPort: f.Set(port + 1) against the revision read; a mismatch sleeps and
\* starts over, a success returns the value read and the locals are gone.
PClaimSet(p) ==
    /\ pp[p].pc \in {"cas1", "cas2"}
    /\ IF CasOk(nextPortPath, pp[p].csp)
          THEN /\ Len(issued) < MaxPorts
               /\ log' = SetFile(nextPortPath, <<NextPortAfter(pp[p].read)>>, pp[p].csp, p)
               /\ issued' = Append(issued, pp[p].read)
               /\ pp' = IF pp[p].pc = "cas1"
                           THEN [pp EXCEPT ![p].pc = "port", ![p].Port = pp[p].read,
                                           ![p].csp = 0, ![p].read = 0]
                           ELSE [pp EXCEPT ![p].pc = "control", ![p].ControlPort = pp[p].read,
                                           ![p].csp = 0, ![p].read = 0]
          ELSE /\ pp' = [pp EXCEPT ![p].pc = IF pp[p].pc = "cas1" THEN "read1" ELSE "read2",
                                     ![p].tries = @ + 1]
               /\ UNCHANGED <<log, issued>>
    /\ UNCHANGED <<hs, sc, ws, rg>>

\* Register: port.Save(), controlPort.Save() and the registered file, each sent
\* with the snapshot taken at the start of Register.
PSave(p) ==
    /\ pp[p].pc \in {"port", "control", "registered"}
    /\ LET file == IF pp[p].pc = "port" THEN "port"
                   ELSE IF pp[p].pc = "control" THEN "port-control" ELSE "registered"
           body == IF pp[p].pc = "port" THEN <<pp[p].Port>>
                   ELSE IF pp[p].pc = "control" THEN <<pp[p].ControlPort>> ELSE <<"ts">>
       IN  IF CasOk(procPath(p, file), pp[p].sp)
              THEN /\ log' = SetFile(procPath(p, file), body, pp[p].sp, p)
                   /\ pp' = [pp EXCEPT ![p].pc = IF pp[p].pc = "port" THEN "read2"
                                                 ELSE IF pp[p].pc = "control" THEN "registered"
                                                 ELSE "done",
                                         ![p].tries = IF pp[p].pc = "port" THEN 0 ELSE @]
              ELSE /\ pp' = [pp EXCEPT ![p].pc = "error"]
                   /\ UNCHANGED log
    /\ UNCHANGED <<issued, hs, sc, ws, rg>>

\* The store after Store.Init: /next-port = startPort.
InitPort ==
    /\ log = <<[p |-> nextPortPath, set |-> TRUE, v |-> <<startPort>>, at |-> 0, by |-> 0]>>
    /\ pp = [p \in Procs |-> idleProc]
    /\ issued = <<>>
    /\ hs = <<>>
    /\ sc = <<>>
    /\ ws = <<>>
    /\ rg = <<>>

NextPort == \E p \in Procs : PRegBegin(p) \/ PClaimRead(p) \/ PClaimSet(p) \/ PSave(p)

SpecPort == InitPort /\ [][NextPort]_vars

NextPortValue == GetAt(nextPortPath, StoreRev)[1]

\* The ports the callers of Register hold: Port and ControlPort, 0 while not given.
PortsGiven == {pp[p].Port : p \in Procs} \cup {pp[p].ControlPort : p \in Procs}

\* C2: under any interleaving of Proc.Register calls the ports claimNextPort
\* returned are pairwise distinct, a claim committed later returned a larger port
\* than one committed earlier, /next-port never decreased, and /next-port is
\* greater than every port issued so far.
C2_PortsDistinctMonotone ==
    /\ \A a, b \in 1..Len(issued) : a < b => issued[a] < issued[b]
    /\ \A p, q \in Procs :
          /\ pp[p].Port # 0 /\ pp[p].ControlPort # 0 => pp[p].Port # pp[p].ControlPort
          /\ p # q /\ pp[p].Port # 0 =>
                pp[p].Port # pp[q].Port /\ pp[p].Port # pp[q].ControlPort
          /\ p # q /\ pp[p].ControlPort # 0 => pp[p].ControlPort # pp[q].ControlPort
    /\ \A j, k \in 1..StoreRev :
          j < k /\ log[j].p = nextPortPath /\ log[k].p = nextPortPath
             => log[j].v[1] <= log[k].v[1]
    /\ \A a \in 1..Len(issued) : issued[a] < NextPortValue
    /\ \A port \in PortsGiven : port < NextPortValue

\* One Register call has been given its two ports while another, racing with
\* it, lost the compare-and-set of /next-port and is about to read it again.
C2_Witness ==
    /\ Len(issued) >= 2
    /\ \E p, q \in Procs :
          /\ p # q
          /\ pp[p].Port # 0 /\ pp[p].ControlPort # 0
          /\ pp[q].pc = "read1" /\ pp[q].csp # 0 /\ ~CasOk(nextPortPath, pp[q].csp)

(***************************************************************************)
(* Instances.  One app, proc and revision; an instance is its id.  The     *)
(* files of /instances/<id>/ are listed in the order Dir.Del("/") walks    *)
(* them; the lookup entries of the proc are instances/<rev>/<id>,          *)
(* failed/<id>, lost/<id> and done/<id>.                                   *)
(***************************************************************************)
Hosts == {"10.0.0.1", "10.0.0.2"}

claimsFile(host) == IF host = "10.0.0.1" THEN "claims/10.0.0.1" ELSE "claims/10.0.0.2"

InsFiles == <<"claims/10.0.0.1", "claims/10.0.0.2", "lock", "object", "registered",
              "restarts", "start", "status", "stop">>

insPath(id, file) == <<"ins", id, file>>

procDonePath(id) == <<"lk", id, "done">>

procFailedPath(id) == <<"lk", id, "failed">>

procLostPath(id) == <<"lk", id, "lost">>

procInstancesPath(id) == <<"lk", id, "instances">>

procStatusPath(id, status) ==
    CASE status = "done" -> procDonePath(id)
      [] status = "failed" -> procFailedPath(id)
      [] status = "lost" -> procLostPath(id)
      [] OTHER -> procInstancesPath(id)

NoTerm == [client |-> "", reason |-> 0, time |-> 0]

\* The list codec: a file holds the fields joined by blanks and is read as
\* its blank-separated fields, so a list v that was written is read back
\* without its empty strings.
ListFields(v) == SelectSeq(v, LAMBDA f : f # "")

\* The hostname argument of Started: "box" unless the specification draws it.
Hostnames == {"box", ""}

Hostname == IF rg # <<>> /\ "hostname" \in DOMAIN rg THEN rg.hostname ELSE "box"

\* Instance.startArray, lines 663-673: [IP, port, Host, telePort], the ports
\* printed in decimal.
startArray(i) == <<i.host, "9000", Hostname, "9001">>

\* strconv.Atoi on the strings a start file can hold; -1 stands for its error.
Atoi(str) ==
    CASE str = "9000" -> 9000
      [] str = "9001" -> 9001
      [] OTHER -> -1

\* getInstance, lines 969-995: IP, Port, Host and TelePort are the first,
\* second, third and fourth field of start, as far as there are fields.
getInstanceStart(id, r) ==
    LET fields == IF ExistsAt(insPath(id, "start"), r)
                     THEN ListFields(GetAt(insPath(id, "start"), r)) ELSE <<>>
    IN  [ip       |-> IF Len(fields) > 0 THEN fields[1] ELSE "",
         port     |-> IF Len(fields) > 1 THEN Atoi(fields[2]) ELSE 0,
         host     |-> IF Len(fields) > 2 THEN fields[3] ELSE "",
         telePort |-> IF Len(fields) > 3 THEN Atoi(fields[4]) ELSE 0]

\* Instance.getRestarts, lines 696-710: Fail and OOM are the first and second
\* field of restarts, zero when there is no file.
getRestarts(id, r) ==
    IF ExistsAt(insPath(id, "restarts"), r)
       THEN [fail |-> GetAt(insPath(id, "restarts"), r)[1],
             oom  |-> GetAt(insPath(id, "restarts"), r)[2]]
       ELSE [fail |-> 0, oom |-> 0]

\* getInstance(id, s) at snapshot revision r: the status rebuilt from start,
\* status and stop; "" stands for the error return.
getInstanceStatus(id, r) ==
    LET dir == \E k \in 1..Len(InsFiles) : ExistsAt(insPath(id, InsFiles[k]), r)
        fields == IF ExistsAt(insPath(id, "start"), r)
                     THEN ListFields(GetAt(insPath(id, "start"), r)) ELSE <<>>
        byStart == IF Len(fields) > 1 THEN "running"
                   ELSE IF Len(fields) > 0 THEN "claimed" ELSE "pending"
        byStatus == IF ExistsAt(insPath(id, "status"), r)
                       THEN GetAt(insPath(id, "status"), r)[1] ELSE byStart
        st == IF byStatus = "running" /\ ExistsAt(insPath(id, "stop"), r)
                 THEN "stopping" ELSE byStatus
    IN  IF ~dir \/ ~ExistsAt(insPath(id, "object"), r)
             \/ ~ExistsAt(insPath(id, "registered"), r)
           THEN "" ELSE st

\* The positions a handle can be at, the operations and their results.
\* was is the revision and status the handle had when its last call began; ret
\* tells what that call returned beside its error: the handle ("self"), the
\* instance it read anew ("new") or nil.
newHandle(id, r, status) ==
    [id |-> id, rev |-> r, status |-> status, pc |-> "idle", op |-> "", err |-> "",
     host |-> "", reason |-> 0, from |-> "", to |-> "", sp |-> 0, term |-> NoTerm,
     widx |-> 0, was |-> [rev |-> r, status |-> status], ret |-> ""]

\* The handle when a call begins on it.
Call(i) == [i EXCEPT !.was = [rev |-> i.rev, status |-> i.status], !.ret = ""]

\* The handle when its call returns e: the locals of the call are gone; op, host
\* and err stay as the record of the call and its result.  The calls return
\* the handle with a nil error and nil with an error, but for the returns of
\* ReturnSelf.
Return(i, e) ==
    [i EXCEPT !.pc = "idle", !.err = e, !.reason = 0, !.from = "",
              !.to = "", !.sp = 0, !.term = NoTerm, !.widx = 0,
              !.ret = IF e = "ok" THEN "self" ELSE "nil"]

\* The handle when its call returns the handle together with the error e.
ReturnSelf(i, e) == [Return(i, e) EXCEPT !.ret = "self"]

\* The handle when the call goes on at position pc.
Goto(i, pc) == [i EXCEPT !.pc = pc, !.err = ""]

\* Handle h is of an instance and between calls; a call starts only below the
\* bound, which for Claim and Unclaim is that of CanWrite.
Idle(h) ==
    hs[h].id # 0 /\ hs[h].pc = "idle" /\ (Scripted \/ Cardinality(HandleWrites) < MaxWrites)

IdleToClaim(h) == hs[h].id # 0 /\ hs[h].pc = "idle" /\ CanWrite

\* Instance.IsDone: FastForward, then Exists(done/<id>).
IsDoneStale(i) == ExistsAt(procDonePath(i.id), i.rev)

IsDone(i) == ExistsAt(procDonePath(i.id), StoreRev)

\* Instance.verifyClaimer(host) after getClaimer's FastForward: "" when host
\* is the first field of start.
verifyClaimer(id, host) ==
    IF ~ExistsAt(insPath(id, "start"), StoreRev) THEN "NOENT"
    ELSE LET fields == GetAt(insPath(id, "start"), StoreRev)
         IN  IF Len(fields) = 0 THEN "UNAUTHORIZED"
             ELSE IF fields[1] # host THEN "UNAUTHORIZED" ELSE ""

\* Store.GetInstance(id): a new handle at the latest revision, in the place of
\* the one the caller held.
GetInstance(h, id) ==
    /\ hs[h].pc = "idle" /\ CanWrite
    /\ getInstanceStatus(id, StoreRev) # ""
    /\ hs' = [hs EXCEPT ![h] = newHandle(id, StoreRev, getInstanceStatus(id, StoreRev))]
    /\ UNCHANGED <<log, pp, issued, sc, ws, rg>>

\* Instance.Claim, lines 209-233: IsDone, then start as the handle's snapshot has it.
ClaimBegin(h, host) ==
    /\ IdleToClaim(h)
    /\ LET i == [Call(hs[h]) EXCEPT !.op = "Claim", !.host = host]
           start == insPath(i.id, "start")
       IN  hs' = [hs EXCEPT ![h] =
                    IF IsDone(i) THEN Return(i, "UNAUTHORIZED")
                    ELSE IF ~ExistsAt(start, i.rev) THEN Return(i, "NOENT")
                    ELSE IF Len(GetAt(start, i.rev)) > 0 THEN Return(i, "INS_CLAIMED")
                    ELSE Goto(i, "claim_set")]
    /\ UNCHANGED <<log, pp, issued, sc, ws, rg>>

\* Claim's Set of start as it would be if the store's revision mismatch were
\* returned as it is, as the Set of claims/<host> returns it.
ClaimSetMismatch(h) ==
    /\ hs[h].pc = "claim_set"
    /\ LET i == hs[h]
           start == insPath(i.id, "start")
       IN  IF CasOk(start, i.rev)
              THEN /\ CanWrite
                   /\ log' = SetFile(start, <<i.host>>, i.rev, h)
                   /\ hs' = [hs EXCEPT ![h] = Goto([i EXCEPT !.sp = StoreRev + 1], "claim_mark")]
              ELSE /\ hs' = [hs EXCEPT ![h] = ReturnSelf(i, "REV_MISMATCH")]
                   /\ UNCHANGED log
    /\ UNCHANGED <<pp, issued, sc, ws, rg>>

\* Instance.Claim, lines 234-242: d.Set(startPath, host) against the snapshot;
\* a revision mismatch is returned as ErrInsClaimed.
ClaimSet(h) ==
    /\ hs[h].pc = "claim_set"
    /\ LET i == hs[h]
           start == insPath(i.id, "start")
       IN  IF CasOk(start, i.rev)
              THEN /\ CanWrite
                   /\ log' = SetFile(start, <<i.host>>, i.rev, h)
                   /\ hs' = [hs EXCEPT ![h] = Goto([i EXCEPT !.sp = StoreRev + 1], "claim_mark")]
              ELSE /\ hs' = [hs EXCEPT ![h] = ReturnSelf(i, "INS_CLAIMED")]
                   /\ UNCHANGED log
    /\ UNCHANGED <<pp, issued, sc, ws, rg>>

\* Instance.Claim, lines 244-251: claims/<host> is set against the revision of
\* the start write, and the handle joins the result.
ClaimMark(h) ==
    /\ hs[h].pc = "claim_mark"
    /\ LET i == hs[h]
           mark == insPath(i.id, claimsFile(i.host))
       IN  IF CasOk(mark, i.sp)
              THEN /\ CanWrite
                   /\ log' = SetFile(mark, <<"ts">>, i.sp, h)
                   /\ hs' = [hs EXCEPT ![h] = Return([i EXCEPT !.rev = StoreRev + 1], "ok")]
              ELSE /\ hs' = [hs EXCEPT ![h] = Return(i, "REV_MISMATCH")]
                   /\ UNCHANGED log
    /\ UNCHANGED <<pp, issued, sc, ws, rg>>

\* Instance.Unclaim, lines 276-279: verifyClaimer, which fast-forwards the handle.
UnclaimBegin(h, host) ==
    /\ IdleToClaim(h)
    /\ LET i == [Call(hs[h]) EXCEPT !.op = "Unclaim", !.host = host, !.rev = StoreRev]
           e == verifyClaimer(i.id, host)
       IN  hs' = [hs EXCEPT ![h] = IF e # "" THEN Return(i, e) ELSE Goto(i, "unclaim_set")]
    /\ UNCHANGED <<log, pp, issued, sc, ws, rg>>

\* Instance.Unclaim, lines 281-287: setClaimer("").
UnclaimSet(h) ==
    /\ hs[h].pc = "unclaim_set"
    /\ LET i == hs[h]
           start == insPath(i.id, "start")
       IN  IF CasOk(start, i.rev)
              THEN /\ CanWrite
                   /\ log' = SetFile(start, <<>>, i.rev, h)
                   /\ hs' = [hs EXCEPT ![h] = Return([i EXCEPT !.rev = StoreRev + 1], "ok")]
              ELSE /\ hs' = [hs EXCEPT ![h] = Return(i, "REV_MISMATCH")]
                   /\ UNCHANGED log
    /\ UNCHANGED <<pp, issued, sc, ws, rg>>

\* Instance.Started, lines 299-306: nothing to do for a handle that is running,
\* else verifyClaimer and the handle's fields are set.
StartedBegin(h, host) ==
    /\ Idle(h)
    /\ LET c == [Call(hs[h]) EXCEPT !.op = "Started", !.host = host]
           i == [c EXCEPT !.rev = StoreRev]
           e == verifyClaimer(i.id, host)
       IN  hs' = [hs EXCEPT ![h] =
                    IF c.status = "running" THEN Return(c, "ok")
                    ELSE IF e # "" THEN Return(i, e)
                    ELSE Goto([i EXCEPT !.status = "running"], "started_save")]
    /\ UNCHANGED <<log, pp, issued, sc, ws, rg>>

\* Instance.Started, lines 308-315: start = [ip, port, host, telePort].
StartedSave(h) ==
    /\ hs[h].pc = "started_save"
    /\ LET i == hs[h]
           start == insPath(i.id, "start")
       IN  IF CasOk(start, i.rev)
              THEN /\ CanWrite
                   /\ log' = SetFile(start, startArray(i), i.rev, h)
                   /\ hs' = [hs EXCEPT ![h] = Return([i EXCEPT !.rev = StoreRev + 1], "ok")]
              ELSE /\ hs' = [hs EXCEPT ![h] = Return(i, "REV_MISMATCH")]
                   /\ UNCHANGED log
    /\ UNCHANGED <<pp, issued, sc, ws, rg>>

\* Instance.Restarted, lines 334-346: the instance is read again at the latest
\* revision; the one read is returned as it is unless it is running.
RestartedBegin(h) ==
    /\ Idle(h)
    /\ LET i == [Call(hs[h]) EXCEPT !.op = "Restarted"]
           st == getInstanceStatus(i.id, StoreRev)
       IN  hs' = [hs EXCEPT ![h] =
                    IF st = "" THEN Return(i, "NOT_FOUND")
                    ELSE IF st # "running"
                            THEN [Return([i EXCEPT !.rev = StoreRev, !.status = st], "ok")
                                    EXCEPT !.ret = "new"]
                    ELSE Goto([i EXCEPT !.sp = StoreRev], "restarted_set")]
    /\ UNCHANGED <<log, pp, issued, sc, ws, rg>>

\* Instance.Restarted, lines 348-358: restarts = [fail, oom].
RestartedSet(h) ==
    /\ hs[h].pc = "restarted_set"
    /\ LET i == hs[h]
           restarts == insPath(i.id, "restarts")
       IN  IF CasOk(restarts, i.sp)
              THEN /\ CanWrite
                   /\ log' = SetFile(restarts, <<1, 0>>, i.sp, h)
                   /\ hs' = [hs EXCEPT ![h] =
                               [Return([i EXCEPT !.rev = StoreRev + 1, !.status = "running"],
                                       "ok") EXCEPT !.ret = "new"]]
              ELSE /\ hs' = [hs EXCEPT ![h] = Return(i, "REV_MISMATCH")]
                   /\ UNCHANGED log
    /\ UNCHANGED <<pp, issued, sc, ws, rg>>

\* Stop as it would be if it judged the handle's own status, as Started does.
StopBeginByHandle(h) ==
    /\ Idle(h)
    /\ LET i == [Call(hs[h]) EXCEPT !.op = "Stop"]
       IN  hs' = [hs EXCEPT ![h] =
                    IF i.status # "running" THEN Return(i, "INVALID_STATE")
                    ELSE Goto([i EXCEPT !.sp = StoreRev], "stop_set")]
    /\ UNCHANGED <<log, pp, issued, sc, ws, rg>>

\* Instance.Stop, lines 369-381: the instance is read again at the latest
\* revision and must be running.  The caller's handle is not changed.
StopBegin(h) ==
    /\ Idle(h)
    /\ LET i == [Call(hs[h]) EXCEPT !.op = "Stop"]
           st == getInstanceStatus(i.id, StoreRev)
       IN  hs' = [hs EXCEPT ![h] =
                    IF st = "" THEN Return(i, "NOT_FOUND")
                    ELSE IF st # "running" THEN Return(i, "INVALID_STATE")
                    ELSE Goto([i EXCEPT !.sp = StoreRev], "stop_set")]
    /\ UNCHANGED <<log, pp, issued, sc, ws, rg>>

\* Instance.Stop, lines 382-387: the stop file.
StopSet(h) ==
    /\ hs[h].pc = "stop_set"
    /\ LET i == hs[h]
           stop == insPath(i.id, "stop")
       IN  IF CasOk(stop, i.sp)
              THEN /\ CanWrite
                   /\ log' = SetFile(stop, <<>>, i.sp, h)
                   /\ hs' = [hs EXCEPT ![h] = Return(i, "ok")]
              ELSE /\ hs' = [hs EXCEPT ![h] = Return(i, "REV_MISMATCH")]
                   /\ UNCHANGED log
    /\ UNCHANGED <<pp, issued, sc, ws, rg>>

\* Instance.updateStatus(i.to) of the call of handle record i, which goes on at
\* position next: status is set against the handle's revision.
updateStatus(h, i, next) ==
    IF CasOk(insPath(i.id, "status"), i.rev)
       THEN /\ CanWrite
            /\ log' = SetFile(insPath(i.id, "status"), <<i.to>>, i.rev, h)
            /\ hs' = [hs EXCEPT ![h] =
                        Goto([i EXCEPT !.status = i.to, !.rev = StoreRev + 1], next)]
       ELSE /\ hs' = [hs EXCEPT ![h] = Return(i, "REV_MISMATCH")]
            /\ UNCHANGED log

\* Whether Failed checks the claimer: not for a handle whose status is pending.
FailedVerifiesAlways(status) == TRUE

FailedVerifies(status) == status # "pending"

\* Instance.Failed, lines 396-406: the claimer is verified unless the handle's
\* status is pending, in which case updateStatus is the first request sent.
FailedBegin(h, host) ==
    /\ Idle(h)
    /\ LET c == [Call(hs[h]) EXCEPT !.op = "Failed", !.host = host, !.reason = h,
                              !.from = hs[h].status,
                              !.to = "failed"]
           i == [c EXCEPT !.rev = StoreRev]
           e == verifyClaimer(i.id, host)
       IN  IF FailedVerifies(c.status)
              THEN /\ hs' = [hs EXCEPT ![h] = IF e # "" THEN Return(i, e)
                                              ELSE Goto(i, "upd_status")]
                   /\ UNCHANGED log
              ELSE updateStatus(h, c, "ul_ff")
    /\ UNCHANGED <<pp, issued, sc, ws, rg>>

\* Instance.Lost, lines 413-418: updateStatus(lost), whatever the claimer.
LostBegin(h, client) ==
    /\ Idle(h)
    /\ updateStatus(h, [Call(hs[h]) EXCEPT !.op = "Lost", !.host = client, !.reason = h,
                                     !.from = hs[h].status, !.to = "lost"], "ul_ff")
    /\ UNCHANGED <<pp, issued, sc, ws, rg>>

\* Instance.Exited, lines 424-426: verifyClaimer.
ExitedBegin(h, host) ==
    /\ Idle(h)
    /\ LET i == [Call(hs[h]) EXCEPT !.op = "Exited", !.host = host, !.to = "exited",
                              !.rev = StoreRev]
           e == verifyClaimer(i.id, host)
       IN  hs' = [hs EXCEPT ![h] = IF e # "" THEN Return(i, e) ELSE Goto(i, "upd_status")]
    /\ UNCHANGED <<log, pp, issued, sc, ws, rg>>

\* updateStatus of a Failed or Exited call whose claimer was verified.
UpdStatus(h) ==
    /\ hs[h].pc = "upd_status"
    /\ updateStatus(h, hs[h], IF hs[h].op = "Exited" THEN "exit_del" ELSE "ul_ff")
    /\ UNCHANGED <<pp, issued, sc, ws, rg>>

\* Instance.Exited, line 431: the lookup entry instances/<rev>/<id> is deleted.
ExitedDel(h) ==
    /\ hs[h].pc = "exit_del"
    /\ LET i == hs[h]
           entry == procStatusPath(i.id, "exited")
       IN  IF CasOk(entry, i.rev)
              THEN /\ CanWrite
                   /\ log' = DelFile(entry, i.rev, h)
                   /\ hs' = [hs EXCEPT ![h] = Return(i, "ok")]
              ELSE /\ hs' = [hs EXCEPT ![h] = ReturnSelf(i, "REV_MISMATCH")]
                   /\ UNCHANGED log
    /\ UNCHANGED <<pp, issued, sc, ws, rg>>

\* Instance.updateLookup, lines 791-809, for the call of handle record i: the
\* Termination of this call, FastForward, and for an instance leaving failed or
\* lost the Termination its entry holds.
updateLookupBegin(i) ==
    LET mine == [client |-> i.host, reason |-> i.reason, time |-> StoreRev]
        old == procStatusPath(i.id, i.from)
    IN  IF i.from \in {"failed", "lost"}
           THEN IF ExistsAt(old, StoreRev)
                   THEN Goto([i EXCEPT !.sp = StoreRev,
                                       !.term = GetAt(old, StoreRev).term],
                             "ul_save")
                   ELSE Return(i, "NOENT")
           ELSE Goto([i EXCEPT !.sp = StoreRev, !.term = mine], "ul_save")

\* updateLookup of a Failed or Lost call.
UpdateLookup(h) ==
    /\ hs[h].pc = "ul_ff"
    /\ hs' = [hs EXCEPT ![h] = updateLookupBegin(hs[h])]
    /\ UNCHANGED <<log, pp, issued, sc, ws, rg>>

\* Instance.Unregister, line 200: updateLookup(i.Status, InsStatusDone, ...).
UnregisterBegin(h, client) ==
    /\ Idle(h)
    /\ hs' = [hs EXCEPT ![h] =
                updateLookupBegin([Call(hs[h]) EXCEPT !.op = "Unregister", !.host = client,
                                                !.reason = h, !.from = hs[h].status, !.to = "done"])]
    /\ UNCHANGED <<log, pp, issued, sc, ws, rg>>

\* updateLookup, lines 811-817: the entry of the new status is saved against
\* the fast-forwarded snapshot; it holds the handle as JSON.
UpdateLookupSave(h) ==
    /\ hs[h].pc = "ul_save"
    /\ LET i == hs[h]
           entry == procStatusPath(i.id, i.to)
       IN  IF CasOk(entry, i.sp)
              THEN /\ CanWrite
                   /\ log' = SetFile(entry, [status |-> i.status, term |-> i.term], i.sp, h)
                   /\ hs' = [hs EXCEPT ![h] = Goto([i EXCEPT !.rev = StoreRev + 1], "ul_del")]
              ELSE /\ hs' = [hs EXCEPT ![h] = Return(i, "REV_MISMATCH")]
                   /\ UNCHANGED log
    /\ UNCHANGED <<pp, issued, sc, ws, rg>>

\* The first file of /instances/<id>/ from position k on that exists at
\* revision r (0: none): what the walk of Dir.Del("/") visits next.
NextWalk(id, r, k) ==
    LET ks == {j \in k..Len(InsFiles) : ExistsAt(insPath(id, InsFiles[j]), r)}
    IN  IF ks = {} THEN 0 ELSE CHOOSE j \in ks : \A m \in ks : j <= m

\* updateLookup, lines 819-824: the entry of the old status is deleted.  A
\* Failed or Lost call returns; Unregister goes on to delete the record.
UpdateLookupDel(h) ==
    /\ hs[h].pc = "ul_del"
    /\ LET i == hs[h]
           entry == procStatusPath(i.id, i.from)
           first == NextWalk(i.id, i.rev, 1)
       IN  IF CasOk(entry, i.rev)
              THEN /\ CanWrite
                   /\ log' = DelFile(entry, i.rev, h)
                   /\ hs' = [hs EXCEPT ![h] =
                               IF i.op = "Unregister" /\ first # 0
                                  THEN Goto([i EXCEPT !.widx = first], "walk")
                                  ELSE Return(i, "ok")]
              ELSE /\ hs' = [hs EXCEPT ![h] = Return(i, "REV_MISMATCH")]
                   /\ UNCHANGED log
    /\ UNCHANGED <<pp, issued, sc, ws, rg>>

\* Instance.Unregister, line 204: i.dir.Del("/") deletes, one request each, the
\* files the record holds at the handle's revision.
UnregisterDel(h) ==
    /\ hs[h].pc = "walk"
    /\ LET i == hs[h]
           file == insPath(i.id, InsFiles[i.widx])
           next == NextWalk(i.id, i.rev, i.widx + 1)
       IN  IF CasOk(file, i.rev)
              THEN /\ CanWrite
                   /\ log' = DelFile(file, i.rev, h)
                   /\ hs' = [hs EXCEPT ![h] =
                               IF next # 0 THEN Goto([i EXCEPT !.widx = next], "walk")
                               ELSE Return(i, "ok")]
              ELSE /\ hs' = [hs EXCEPT ![h] = Return(i, "REV_MISMATCH")]
                   /\ UNCHANGED log
    /\ UNCHANGED <<pp, issued, sc, ws, rg>>

\* Instance.IsLocked, lines 574-587: FastForward of a snapshot of its own, then
\* Exists(lock).  The handle stays at its revision.
IsLocked(i) == ExistsAt(insPath(i.id, "lock"), StoreRev)

\* Instance.Lock, lines 548-554: a locked instance is refused.
LockBegin(h, client) ==
    /\ Idle(h)
    /\ LET i == [Call(hs[h]) EXCEPT !.op = "Lock", !.host = client]
       IN  hs' = [hs EXCEPT ![h] = IF IsLocked(i) THEN Return(i, "UNAUTHORIZED")
                                   ELSE Goto(i, "lock_set")]
    /\ UNCHANGED <<log, pp, issued, sc, ws, rg>>

\* Instance.Lock, lines 556-561: i.dir.Set(lockPath, "<ts> <client> <reason>")
\* against the handle's revision; the error of the store is returned as it is.
LockSet(h) ==
    /\ hs[h].pc = "lock_set"
    /\ LET i == hs[h]
           lock == insPath(i.id, "lock")
       IN  IF CasOk(lock, i.rev)
              THEN /\ CanWrite
                   /\ log' = SetFile(lock, <<"ts", i.host, "reason">>, i.rev, h)
                   /\ hs' = [hs EXCEPT ![h] = Return([i EXCEPT !.rev = StoreRev + 1], "ok")]
              ELSE /\ hs' = [hs EXCEPT ![h] = Return(i, "REV_MISMATCH")]
                   /\ UNCHANGED log
    /\ UNCHANGED <<pp, issued, sc, ws, rg>>

\* Instance.Unlock, lines 565-571: i.dir.Del(lockPath); the handle is returned
\* as it was.
Unlock(h) ==
    /\ Idle(h)
    /\ LET i == [Call(hs[h]) EXCEPT !.op = "Unlock"]
           lock == insPath(i.id, "lock")
       IN  IF CasOk(lock, i.rev)
              THEN /\ CanWrite
                   /\ log' = DelFile(lock, i.rev, h)
                   /\ hs' = [hs EXCEPT ![h] = Return(i, "ok")]
              ELSE /\ hs' = [hs EXCEPT ![h] = Return(i, "REV_MISMATCH")]
                   /\ UNCHANGED log
    /\ UNCHANGED <<pp, issued, sc, ws, rg>>

(***************************************************************************)
(* The life cycle of one instance under concurrent callers.  Initially     *)
(* RegisterInstance has returned and every caller holds a handle of the    *)
(* pending instance at the revision of the registration.                   *)
(***************************************************************************)
\* Store.RegisterInstance, lines 169-193: object, start, the lookup entry and
\* registered, in this order, written by caller c from revision r on.
RegisterWritesRegisteredFirst(id, env, r, c) ==
    <<[p |-> insPath(id, "registered"), set |-> TRUE, v |-> <<"ts">>, at |-> r, by |-> c],
      [p |-> insPath(id, "object"), set |-> TRUE, v |-> <<"app", "rev", "proc", env>>,
       at |-> r, by |-> c],
      [p |-> insPath(id, "start"), set |-> TRUE, v |-> <<>>, at |-> r, by |-> c],
      [p |-> procStatusPath(id, "running"), set |-> TRUE, v |-> <<"ts">>, at |-> r, by |-> c]>>

RegisterWrites(id, env, r, c) ==
    <<[p |-> insPath(id, "object"), set |-> TRUE, v |-> <<"app", "rev", "proc", env>>,
       at |-> r, by |-> c],
      [p |-> insPath(id, "start"), set |-> TRUE, v |-> <<>>, at |-> r, by |-> c],
      [p |-> procStatusPath(id, "running"), set |-> TRUE, v |-> <<"ts">>, at |-> r, by |-> c],
      [p |-> insPath(id, "registered"), set |-> TRUE, v |-> <<"ts">>, at |-> r, by |-> c]>>

InitIns ==
    /\ log = RegisterWrites(1, "env", 0, 0)
    /\ hs = [h \in Handles |-> newHandle(1, 4, "pending")]
    /\ pp = <<>>
    /\ issued = <<>>
    /\ sc = <<>>
    /\ ws = <<>>
    /\ rg = <<>>

NextIns ==
    \E h \in Handles :
        \/ \E id \in InsIds : GetInstance(h, id)
        \/ \E host \in Hosts : ClaimBegin(h, host)
        \/ ClaimSet(h)
        \/ ClaimMark(h)
        \/ \E host \in Hosts : UnclaimBegin(h, host)
        \/ UnclaimSet(h)
        \/ \E host \in Hosts : StartedBegin(h, host)
        \/ StartedSave(h)
        \/ RestartedBegin(h)
        \/ RestartedSet(h)
        \/ StopBegin(h)
        \/ StopSet(h)
        \/ \E host \in Hosts : FailedBegin(h, host)
        \/ \E client \in Hosts : LostBegin(h, client)
        \/ \E host \in Hosts : ExitedBegin(h, host)
        \/ UpdStatus(h)
        \/ ExitedDel(h)
        \/ UpdateLookup(h)
        \/ \E client \in Hosts : UnregisterBegin(h, client)
        \/ UpdateLookupSave(h)
        \/ UpdateLookupDel(h)
        \/ UnregisterDel(h)

SpecIns == InitIns /\ [][NextIns]_vars

(***************************************************************************)
(* What the claims speak of, for instance 1 of SpecIns.                    *)
(***************************************************************************)
startFile == insPath(1, "start")

statusFile == insPath(1, "status")

\* The lookup paths that hold an entry of instance 1 at revision r.
LookupEntries(r) ==
    {path \in {procInstancesPath(1), procFailedPath(1), procLostPath(1), procDonePath(1)} :
        ExistsAt(path, r)}

\* In this step handle h starts a call of op, which may return at once.
Begins(h, op) == hs[h].pc = "idle" /\ hs'[h] # hs[h] /\ hs'[h].op = op

\* In this step the call of op that handle h is in returns.
Returns(h, op) == hs'[h] # hs[h] /\ hs'[h].op = op /\ hs'[h].pc = "idle"

\* Mutation k is a Claim's write of start, an Unclaim's, a Claim's write of claims/<host>.
IsClaimWrite(k) == log[k].p = startFile /\ log[k].set /\ Len(log[k].v) = 1

IsUnclaimWrite(k) == log[k].p = startFile /\ log[k].set /\ Len(log[k].v) = 0

IsClaimMark(k) ==
    /\ log[k].by \in Handles
    /\ \E host \in Hosts : log[k].p = insPath(1, claimsFile(host))
    /\ log[k].set

\* The Claim call that committed the start write k has returned.
ClaimReturned(k) == ~(hs[log[k].by].pc = "claim_mark" /\ hs[log[k].by].sp = k)

\* The Claim call that committed the start write k succeeded: it wrote claims/<host>.
ClaimSucceeded(k) == \E j \in 1..StoreRev : IsClaimMark(j) /\ log[j].at = k

\* Besides the Claim call that committed the start write k another Claim was
\* issued from the same snapshot: by another handle, whose last call it is, or
\* by the same handle afterwards.
ClaimHasSibling(k) ==
    \E g \in Handles :
        /\ hs[g].op = "Claim" /\ hs[g].rev = log[k].at
        /\ g # log[k].by \/ hs[g].pc = "claim_set" \/ hs[g].err = "INS_CLAIMED"

\* C1: for any interleaving of Claim and Unclaim calls, two Claims never both
\* succeed unless a successful Unclaim is committed between them (between their
\* writes of start), and of several Claims issued from the same pending snapshot
\* at most one succeeds and every other returns INS_CLAIMED: no two of them write
\* start, the one that wrote start succeeds, and one that did not returns
\* INS_CLAIMED.
C1_ClaimExclusive ==
    ClaimsOnly =>
        /\ \A j, k \in 1..StoreRev :
              (IsClaimMark(j) /\ IsClaimMark(k) /\ log[j].at < log[k].at)
                 => \E u \in (log[j].at + 1)..(log[k].at - 1) : IsUnclaimWrite(u)
        /\ \A j, k \in 1..StoreRev :
              (IsClaimWrite(j) /\ IsClaimWrite(k) /\ j # k) => log[j].at # log[k].at
        /\ \A k \in 1..StoreRev :
              (IsClaimWrite(k) /\ log[k].by \in Handles /\ ClaimReturned(k) /\ ClaimHasSibling(k))
                 => ClaimSucceeded(k)
        /\ \A h \in Handles :
              (/\ hs[h].op = "Claim" /\ hs[h].pc = "idle" /\ hs[h].err # "ok"
               /\ ~\E k \in 1..StoreRev : IsClaimWrite(k) /\ log[k].by = h /\ log[k].at = hs[h].rev)
                 => hs[h].err = "INS_CLAIMED"

\* C3: when every handle holds the same pending snapshot r and each has called
\* Failed, nothing else having written since r, exactly one call succeeded and
\* every other returned the revision mismatch; GetInstance then reports failed
\* and failed/<id>, written once, carries the client and reason of the winner.
C3_IssuedFrom(h, r) ==
    /\ hs[h].op = "Failed" /\ hs[h].pc = "idle"
    /\ \/ hs[h].rev = r /\ hs[h].status = "pending"
       \/ /\ \E k \in (r + 1)..StoreRev :
                log[k].p = statusFile /\ log[k].by = h /\ log[k].at = r
          /\ ExistsAt(procFailedPath(1), StoreRev)
          /\ hs[h].rev = LastMut(procFailedPath(1), StoreRev)
          /\ log[hs[h].rev].by = h

C3_Scenario(r) ==
    /\ getInstanceStatus(1, r) = "pending"
    /\ \A h \in Handles : C3_IssuedFrom(h, r)
    /\ \A k \in (r + 1)..StoreRev :
          \/ log[k].p = statusFile /\ log[k].v = <<"failed">>
          \/ log[k].p = procFailedPath(1)
          \/ log[k].p = procInstancesPath(1)

C3_FailedRace ==
    \A r \in 1..StoreRev :
        C3_Scenario(r) =>
            /\ Cardinality({h \in Handles : hs[h].err = "ok"}) = 1
            /\ \A h \in Handles : hs[h].err \in {"ok", "REV_MISMATCH"}
            /\ getInstanceStatus(1, StoreRev) = "failed"
            /\ Cardinality({k \in (r + 1)..StoreRev : log[k].p = procFailedPath(1)}) = 1
            /\ ExistsAt(procFailedPath(1), StoreRev)
            /\ \E w \in Handles :
                  /\ hs[w].err = "ok"
                  /\ GetAt(procFailedPath(1), StoreRev).term.client = hs[w].host
                  /\ GetAt(procFailedPath(1), StoreRev).term.reason = w

\* Both handles called Failed on the registration snapshot, for different
\* hosts, and both calls are over.
C3_Witness ==
    /\ NumHandles >= 2
    /\ C3_Scenario(4)
    /\ hs[1].host # hs[2].host
    /\ LookupEntries(StoreRev) = {procFailedPath(1)}

\* The stored start file of instance 1 names a claimer and the stored status
\* is claimed or running.
ClaimedBy(host) ==
    /\ ExistsAt(startFile, StoreRev)
    /\ Len(GetAt(startFile, StoreRev)) > 0
    /\ GetAt(startFile, StoreRev)[1] = host
    /\ getInstanceStatus(1, StoreRev) \in {"claimed", "running"}

\* C4: while the stored start file names host as the claimer of a claimed or
\* running instance, every call of Started, Unclaim, Exited or Failed made with
\* another host, through any handle, returns UNAUTHORIZED at once and changes
\* no file and no lookup entry.
C4_OtherHostUnauthorized ==
    [][\A h \in Handles : \A host \in Hosts : \A op \in {"Started", "Unclaim", "Exited", "Failed"} :
          (ClaimedBy(host) /\ Begins(h, op) /\ hs'[h].host # host)
             => /\ hs'[h].pc = "idle"
                /\ hs'[h].err = "UNAUTHORIZED"
                /\ log' = log]_vars

\* C5: once Unregister has written done/<id>, a Claim that is called through
\* any handle, one obtained before the Unregister and one called while the
\* Unregister goes on deleting included, returns UNAUTHORIZED at once and writes
\* neither start nor claims/<host>.
C5_ClaimAfterDone ==
    [][\A h \in Handles :
          (ExistsAt(procDonePath(1), StoreRev) /\ Begins(h, "Claim"))
             => /\ hs'[h].pc = "idle"
                /\ hs'[h].err = "UNAUTHORIZED"
                /\ log' = log]_vars

\* A handle obtained before the Unregister was refused its Claim while the
\* Unregister of another handle, done/<id> written, is still deleting.
C5_Witness ==
    \E h, g \in Handles :
        /\ ExistsAt(procDonePath(1), StoreRev)
        /\ hs[h].op = "Claim" /\ hs[h].pc = "idle" /\ hs[h].err = "UNAUTHORIZED"
        /\ hs[h].rev < LastMut(procDonePath(1), StoreRev)
        /\ hs[g].op = "Unregister" /\ hs[g].pc \in {"ul_del", "walk"}

\* C6: whenever no call is in progress, an instance that is registered and
\* not unregistered has exactly one lookup entry, the one of the status
\* GetInstance reports.
C6_OneLookupEntry ==
    (/\ \A h \in Handles : hs[h].pc = "idle"
     /\ getInstanceStatus(1, StoreRev) # ""
     /\ ~ExistsAt(procDonePath(1), StoreRev))
       => LookupEntries(StoreRev) = {procStatusPath(1, getInstanceStatus(1, StoreRev))}

\* C7: in every intermediate state of Failed, Lost and Unregister a reader of
\* the lookup index finds the instance, under the old path of the call or under
\* its new one: never under no path at all.
C7_NeverUnderNeither ==
    \A h \in Handles :
        (hs[h].op \in {"Failed", "Lost", "Unregister"} /\ hs[h].pc # "idle")
           => LookupEntries(StoreRev) # {}

\* C8: when an Unregister writes done/<id> of an instance whose stored status
\* is failed or lost, the Termination it writes is the one failed/<id> or
\* lost/<id> holds.
C8_TerminationPreserved ==
    \A k \in 2..StoreRev :
        LET st == getInstanceStatus(1, k - 1)
        IN  (/\ log[k].p = procDonePath(1) /\ log[k].set
             /\ st \in {"failed", "lost"}
             /\ ExistsAt(procStatusPath(1, st), k - 1))
               => log[k].v.term = GetAt(procStatusPath(1, st), k - 1).term

\* C9: a Claim that did not succeed has written nothing; and once every
\* handle has called Claim on the freshly registered instance, nothing but these
\* Claims having written, start names the one winner and the claims directory
\* holds the winner's entry and no other.
C9_FailedClaimWritesNothing ==
    /\ \A h \in Handles :
          (hs[h].op = "Claim" /\ hs[h].pc = "idle" /\ hs[h].err # "ok")
             => ~\E k \in 1..StoreRev :
                    IsClaimWrite(k) /\ log[k].by = h /\ log[k].at = hs[h].rev
    /\ (/\ \A h \in Handles : hs[h].op = "Claim" /\ hs[h].pc = "idle"
        /\ \A k \in 5..StoreRev : (IsClaimWrite(k) /\ log[k].at = 4) \/ IsClaimMark(k))
          => \E k \in 5..StoreRev :
                /\ IsClaimWrite(k)
                /\ \A j \in 5..StoreRev : IsClaimWrite(j) => j = k
                /\ GetAt(startFile, StoreRev) = log[k].v
                /\ \A host \in Hosts :
                      ExistsAt(insPath(1, claimsFile(host)), StoreRev) <=> <<host>> = log[k].v


(***************************************************************************)
(* Store.Scale, with no operation running beside it.  The app has one      *)
(* revision, one proc and the environments Envs; initially some instances  *)
(* are registered and were taken, one call after the other, to any of the  *)
(* statuses of InitStatuses.                                               *)
(***************************************************************************)
Envs == {"prod", "dev"}

\* The env arguments Scale is called with: the environments, one that is not
\* registered, the empty string and one with a character that is not allowed.
ScaleEnvs == Envs \cup {"none", "", "a/b"}

\* The largest factor Scale is called with.
MaxFactor == 2

\* The most instances registered initially.
MaxInit == 2

\* Scale is called no more often than this.
MaxScales == 2

revPath == <<"app", 0, "revs/rev">>

procsPath == <<"app", 0, "procs/proc">>

envPath(env) == <<"app", 0, env>>

\* validateInput: not empty, and letters, digits, "-" and "." only.
validateInput(str) == str \notin {"", "a/b"}

\* Getuid: the next instance id.
NextId == 1 + Cardinality({id \in InsIds : LastMut(insPath(id, "object"), StoreRev) # 0})

\* getInstanceIds at snapshot revision r: the ids under instances/<rev>, sorted.
getInstanceIdsDescending(r) ==
    LET ids == {id \in InsIds : ExistsAt(procInstancesPath(id), r)}
    IN  CHOOSE q \in [1..Cardinality(ids) -> ids] : \A a, b \in 1..Cardinality(ids) : a < b => q[a] > q[b]

getInstanceIds(r) ==
    LET ids == {id \in InsIds : ExistsAt(procInstancesPath(id), r)}
    IN  CHOOSE q \in [1..Cardinality(ids) -> ids] : \A a, b \in 1..Cardinality(ids) : a < b => q[a] < q[b]

idleScale ==
    [pc |-> "idle", factor |-> 0, env |-> "", sp |-> 0, is |-> <<>>, current |-> -1,
     k |-> 0, id |-> 0, w |-> 0, tickets |-> <<>>, err |-> "", rev |-> 0, calls |-> 0]

\* Scale returns e: nil tickets and current = -1 with an error; rev is the
\* store revision it returns at, calls the number of calls so far.
ScaleReturn(c, e) ==
    [c EXCEPT !.pc = "idle", !.err = e, !.rev = StoreRev,
              !.tickets = IF e = "" THEN c.tickets ELSE <<>>,
              !.current = IF e = "" THEN c.current ELSE -1,
              !.is = <<>>, !.k = 0, !.id = 0, !.w = 0]

\* No call of a handle and no Scale is running.
Quiet == sc.pc = "idle" /\ \A h \in Handles : hs[h].pc = "idle"

\* Scale, lines 1392-1455: the arguments, the snapshot, the instances of env
\* among those of (app, rev, proc), and what is to be done.
ScaleBegin(env, factor) ==
    /\ Quiet
    /\ sc.calls < MaxScales
    /\ LET c == [idleScale EXCEPT !.factor = factor, !.env = env, !.sp = StoreRev,
                                  !.calls = sc.calls + 1]
           ids == getInstanceIds(StoreRev)
           is == SelectSeq(ids, LAMBDA id : GetAt(insPath(id, "object"), StoreRev)[4] = env)
       IN  sc' = IF ~validateInput(env) THEN ScaleReturn(c, "INVALID_ARGUMENT")
                 ELSE IF factor < 0 THEN ScaleReturn(c, "NEGATIVE_FACTOR")
                 ELSE IF ~ExistsAt(revPath, StoreRev) \/ ~ExistsAt(procsPath, StoreRev)
                         \/ ~ExistsAt(envPath(env), StoreRev)
                         \/ \E k \in 1..Len(ids) : getInstanceStatus(ids[k], StoreRev) = ""
                         THEN ScaleReturn(c, "NOT_FOUND")
                 ELSE IF factor > Len(is)
                         THEN [c EXCEPT !.pc = "register", !.is = is, !.current = Len(is),
                                        !.k = factor - Len(is), !.w = 1]
                 ELSE IF factor < Len(is)
                         THEN [c EXCEPT !.pc = "stop", !.is = is, !.current = Len(is), !.k = 1]
                 ELSE ScaleReturn([c EXCEPT !.current = Len(is)], "")
    /\ UNCHANGED <<log, pp, issued, hs, ws, rg>>

\* Scale, lines 1457-1470: RegisterInstance for each missing instance, one of
\* its four writes at a time; the snapshot of the store joins the ticket.
ScaleRegister ==
    /\ sc.pc = "register"
    /\ LET id == IF sc.w = 1 THEN NextId ELSE sc.id
           c == [sc EXCEPT !.id = id]
       IN  /\ id <= MaxIns
           /\ log' = Append(log, RegisterWrites(id, sc.env, sc.sp, 0)[sc.w])
           /\ sc' = IF sc.w < 4 THEN [c EXCEPT !.w = sc.w + 1]
                    ELSE IF sc.k > 1
                            THEN [c EXCEPT !.w = 1, !.k = sc.k - 1, !.sp = StoreRev + 1,
                                           !.tickets = Append(sc.tickets, id)]
                    ELSE ScaleReturn([c EXCEPT !.sp = StoreRev + 1,
                                               !.tickets = Append(sc.tickets, id)], "")
    /\ UNCHANGED <<pp, issued, hs, ws, rg>>

\* Scale, lines 1471-1487: Stop on the first current - factor instances listed;
\* Stop reads the instance again and wants it running.
ScaleStop ==
    /\ sc.pc = "stop"
    /\ LET id == sc.is[sc.k]
           st == getInstanceStatus(id, StoreRev)
       IN  IF st = "running"
              THEN /\ log' = SetFile(insPath(id, "stop"), <<>>, StoreRev, 0)
                   /\ sc' = IF sc.k < sc.current - sc.factor
                               THEN [sc EXCEPT !.k = sc.k + 1, !.tickets = Append(sc.tickets, id)]
                               ELSE ScaleReturn([sc EXCEPT !.tickets = Append(sc.tickets, id)], "")
              ELSE /\ sc' = ScaleReturn(sc, IF st = "" THEN "NOT_FOUND" ELSE "INVALID_STATE")
                   /\ UNCHANGED log
    /\ UNCHANGED <<pp, issued, hs, ws, rg>>

\* What the calls that took instance id from pending to status st have
\* written: Claim and Started by ScaleHost, then Stop, Exited, Failed or Lost.
ScaleHost == "10.0.0.1"

Entry(path, body) == [p |-> path, set |-> TRUE, v |-> body, at |-> 0, by |-> 0]

ClaimWrites(id) ==
    <<Entry(insPath(id, "start"), <<ScaleHost>>),
      Entry(insPath(id, claimsFile(ScaleHost)), <<"ts">>)>>

StartedWrites(id) == <<Entry(insPath(id, "start"), <<ScaleHost, "9000", "box", "9001">>)>>

StopWrites(id) == <<Entry(insPath(id, "stop"), <<>>)>>

ExitedWrites(id) ==
    <<Entry(insPath(id, "status"), <<"exited">>),
      [p |-> procInstancesPath(id), set |-> FALSE, v |-> <<>>, at |-> 0, by |-> 0]>>

MovedWrites(id, st) ==
    <<Entry(insPath(id, "status"), <<st>>),
      Entry(procStatusPath(id, st),
            [status |-> st, term |-> [client |-> ScaleHost, reason |-> 1, time |-> 0]]),
      [p |-> procInstancesPath(id), set |-> FALSE, v |-> <<>>, at |-> 0, by |-> 0]>>

InitStatuses == {"pending", "claimed", "running", "stopping", "exited", "failed", "lost"}

\* The writes that registered instance id in env and took it to status st.
Prepared(id, env, st) ==
    RegisterWrites(id, env, 0, 0)
       \o (IF st # "pending" THEN ClaimWrites(id) ELSE <<>>)
       \o (IF st \notin {"pending", "claimed"} THEN StartedWrites(id) ELSE <<>>)
       \o (IF st = "stopping" THEN StopWrites(id)
           ELSE IF st = "exited" THEN ExitedWrites(id)
           ELSE IF st \in {"failed", "lost"} THEN MovedWrites(id, st)
           ELSE <<>>)

RECURSIVE PreparedUpTo(_, _, _)
PreparedUpTo(n, envs, sts) ==
    IF n = 0 THEN <<>> ELSE PreparedUpTo(n - 1, envs, sts) \o Prepared(n, envs[n], sts[n])

\* The store after the app, its revision, proc and environments were registered.
AppWrites ==
    <<Entry(revPath, <<"ts">>), Entry(procsPath, <<"ts">>),
      Entry(envPath("prod"), <<"ts">>), Entry(envPath("dev"), <<"ts">>)>>

InitScale ==
    /\ \E n \in 0..MaxInit :
          \E envs \in [1..n -> Envs] : \E sts \in [1..n -> InitStatuses] :
             log = AppWrites \o PreparedUpTo(n, envs, sts)
    /\ hs = [h \in Handles |-> newHandle(0, 0, "")]
    /\ sc = idleScale
    /\ ws = <<>>
    /\ rg = <<>>
    /\ pp = <<>>
    /\ issued = <<>>

NextScale ==
    \/ \E env \in ScaleEnvs : \E factor \in -1..MaxFactor : ScaleBegin(env, factor)
    \/ ScaleRegister
    \/ ScaleStop

SpecScale == InitScale /\ [][NextScale]_vars

\* The instances of env an enumeration at revision r lists.
Enumerated(env, r) ==
    {id \in InsIds : /\ ExistsAt(procInstancesPath(id), r)
                     /\ getInstanceStatus(id, r) # ""
                     /\ GetAt(insPath(id, "object"), r)[4] = env}

\* C10: when Scale has returned without error, an enumeration at the revision
\* it returned at lists exactly factor instances that are pending, claimed or
\* running, and every other instance it lists is stopping.
C10_ScaleLeavesFactorLive ==
    (sc.pc = "idle" /\ sc.calls > 0 /\ sc.err = "")
       => LET all == Enumerated(sc.env, sc.rev)
              live == {id \in all : getInstanceStatus(id, sc.rev) \in {"pending", "claimed", "running"}}
          IN  /\ Cardinality(live) = sc.factor
              /\ \A id \in all \ live : getInstanceStatus(id, sc.rev) = "stopping"

\* The last Scale call has returned and was one with factor < current: it got
\* past the checks of its arguments and listed more than factor instances.
ScaledDown ==
    /\ sc.pc = "idle" /\ sc.calls > 0
    /\ sc.env \in Envs /\ sc.factor >= 0
    /\ sc.factor < Cardinality(Enumerated(sc.env, sc.sp))

\* The instances the last Scale call stop-marked.
StopMarked == {id \in InsIds : \E k \in (sc.sp + 1)..StoreRev : log[k].p = insPath(id, "stop")}

\* The instances Scale listed that were running when it listed them.
RunningListed == {id \in Enumerated(sc.env, sc.sp) : getInstanceStatus(id, sc.sp) = "running"}

\* The n smallest ids of the set ids.
FirstOf(ids, n) == {id \in ids : Cardinality({j \in ids : j < id}) < n}

\* The ids of the sequence q.
Range(q) == {q[k] : k \in 1..Len(q)}

\* C11 as claimed: when factor < current, the instances Scale stop-marks and
\* returns are the first current - factor running ones in ascending id order;
\* pending, claimed and stopping instances are skipped.
C11_StopsFirstRunning ==
    ScaledDown =>
        LET n == Cardinality(Enumerated(sc.env, sc.sp)) - sc.factor
        IN  /\ StopMarked = FirstOf(RunningListed, n)
            /\ Range(sc.tickets) = StopMarked
            /\ \A a, b \in 1..Len(sc.tickets) : a < b => sc.tickets[a] < sc.tickets[b]

\* C11 amended: when factor < current, Scale takes the first current - factor
\* instances it listed, in ascending id order and whatever their status.  If all
\* of them are running it stop-marks and returns exactly them; otherwise it
\* returns INVALID_STATE with no tickets and current = -1, having stop-marked
\* those before the first that is not running.
C11_StopsFirstListed ==
    ScaledDown =>
        LET all == Enumerated(sc.env, sc.sp)
            sel == FirstOf(all, Cardinality(all) - sc.factor)
            bad == {id \in sel : id \notin RunningListed}
        IN  IF bad = {}
               THEN /\ sc.err = "" /\ sc.current = Cardinality(all)
                    /\ StopMarked = sel
                    /\ Range(sc.tickets) = sel /\ Len(sc.tickets) = Cardinality(sel)
                    /\ \A a, b \in 1..Len(sc.tickets) : a < b => sc.tickets[a] < sc.tickets[b]
               ELSE /\ sc.err = "INVALID_STATE" /\ sc.current = -1 /\ sc.tickets = <<>>
                    /\ StopMarked = {id \in sel : \A b \in bad : id < b}

\* A Scale call stop-marked a running instance and then met one that was not
\* running, a pending instance being among those it listed.
C11_Witness ==
    /\ ScaledDown /\ sc.err = "INVALID_STATE"
    /\ StopMarked # {}
    /\ \E id \in Enumerated(sc.env, sc.sp) : getInstanceStatus(id, sc.sp) = "pending"

(***************************************************************************)
(* App.Register, Revision.Register and Store.RegisterInstance, one request *)
(* at a time, for the app, its revision and the instances of its proc.     *)
(* The files of the app are attrs, registered and its environment          *)
(* variables; those of the revision are archive-url and registered.        *)
(***************************************************************************)
\* The variables of the Env of the app that is registered.
AppEnv == {"env/K1", "env/K2"}

appPath(file) == <<"app", 0, file>>

archiveURLPath == "revs/rev/archive-url"

revRegisteredPath == "revs/rev/registered"

\* Exists(/apps/<app>) at revision r: some file under the directory exists.
AppDirExists(r) ==
    \/ \E file \in {"attrs", "registered", archiveURLPath, revRegisteredPath} \cup AppEnv :
          ExistsAt(appPath(file), r)
    \/ \E k \in 1..r : log[k].p[1] = "proc" /\ ExistsAt(log[k].p, r)

\* Exists(/apps/<app>/revs/<ref>) at revision r.
RevDirExists(r) ==
    \E file \in {archiveURLPath, revRegisteredPath} : ExistsAt(appPath(file), r)

\* A caller of a Register: its position, the snapshot it took, the revision of
\* its directory, the variables still to set, the id it was given and the write
\* it is at.
idleReg == [pc |-> "idle", sp |-> 0, rev |-> 0, todo |-> {}, id |-> 0, w |-> 0]

\* RegisterInstance is called no more often than this.
MaxRegIns == 1

\* No more calls than this are in progress at a time.
MaxRegs == 1

InProgress(c) == c.pc \notin {"idle", "done", "conflict", "error"}

\* The calls in progress: the Register calls of rg, those of Proc.Register and
\* the calls on the instance handles.
RegsInProgress ==
    Cardinality({kind \in {"app", "rev", "ins"} : InProgress(rg[kind])})
       + Cardinality({p \in DOMAIN pp : pp[p].pc \notin {"idle", "done", "conflict", "error"}})
       + Cardinality({h \in DOMAIN hs : hs[h].pc # "idle"})

MayRegister == rg.test \/ RegsInProgress < MaxRegs

\* App.Register, lines 47-58: FastForward, the directory must not exist.
AppRegisterBegin ==
    /\ rg.app.pc \in {"idle", "done"}
    /\ MayRegister
    /\ rg' = [rg EXCEPT !.app =
                IF AppDirExists(StoreRev) THEN [idleReg EXCEPT !.pc = "conflict"]
                ELSE [idleReg EXCEPT !.pc = "attrs", !.sp = StoreRev, !.todo = AppEnv]]
    /\ UNCHANGED <<log, pp, issued, hs, sc, ws>>

\* App.Register, lines 64-76: attrs.Save() against the snapshot, which the
\* directory of the app joins.
AppRegisterAttrs ==
    /\ rg.app.pc = "attrs"
    /\ IF CasOk(appPath("attrs"), rg.app.sp)
          THEN /\ log' = SetFile(appPath("attrs"), <<"repo", "stack", "lxc">>, rg.app.sp, 0)
               /\ rg' = [rg EXCEPT !.app.pc = "env", !.app.rev = rg.app.sp]
          ELSE /\ rg' = [rg EXCEPT !.app.pc = "error"]
               /\ UNCHANGED log
    /\ UNCHANGED <<pp, issued, hs, sc, ws>>

\* App.Register, lines 78-83: SetEnvironmentVar for each variable of Env, in the
\* order the map yields them; the directory joins each write.
AppRegisterEnv(k) ==
    /\ rg.app.pc = "env"
    /\ k \in rg.app.todo
    /\ IF CasOk(appPath(k), rg.app.rev)
          THEN /\ log' = SetFile(appPath(k), <<"value">>, rg.app.rev, 0)
               /\ rg' = [rg EXCEPT !.app.rev = StoreRev + 1, !.app.todo = @ \ {k}]
          ELSE /\ rg' = [rg EXCEPT !.app.pc = "error"]
               /\ UNCHANGED log
    /\ UNCHANGED <<pp, issued, hs, sc, ws>>

\* App.Register, lines 85-94: the registered file, set last.
AppRegisterRegistered ==
    /\ rg.app.pc = "env"
    /\ rg.app.todo = {}
    /\ IF CasOk(appPath("registered"), rg.app.rev)
          THEN /\ log' = SetFile(appPath("registered"), <<"ts">>, rg.app.rev, 0)
               /\ rg' = [rg EXCEPT !.app.pc = "done", !.app.rev = StoreRev + 1]
          ELSE /\ rg' = [rg EXCEPT !.app.pc = "error"]
               /\ UNCHANGED log
    /\ UNCHANGED <<pp, issued, hs, sc, ws>>

\* Revision.Register, lines 289-300: FastForward, the directory must not exist.
RevRegisterBegin ==
    /\ rg.rev.pc \in {"idle", "done"}
    /\ MayRegister
    /\ rg' = [rg EXCEPT !.rev =
                IF RevDirExists(StoreRev) THEN [idleReg EXCEPT !.pc = "conflict"]
                ELSE [idleReg EXCEPT !.pc = "archive", !.sp = StoreRev, !.rev = rg.rev.rev]]
    /\ UNCHANGED <<log, pp, issued, hs, sc, ws>>

\* Revision.Register, lines 302-305: archive-url is set against the snapshot.
RevRegisterArchive ==
    /\ rg.rev.pc = "archive"
    /\ IF CasOk(appPath(archiveURLPath), rg.rev.sp)
          THEN /\ log' = SetFile(appPath(archiveURLPath), <<"url">>, rg.rev.sp, 0)
               /\ rg' = [rg EXCEPT !.rev.pc = "registered"]
          ELSE /\ rg' = [rg EXCEPT !.rev.pc = "error"]
               /\ UNCHANGED log
    /\ UNCHANGED <<pp, issued, hs, sc, ws>>

\* Revision.Register, lines 306-315: registered is set against the revision the
\* Revision had before the call, and the Revision joins the write.
RevRegisterRegistered ==
    /\ rg.rev.pc = "registered"
    /\ IF CasOk(appPath(revRegisteredPath), rg.rev.rev)
          THEN /\ log' = SetFile(appPath(revRegisteredPath), <<"ts">>, rg.rev.rev, 0)
               /\ rg' = [rg EXCEPT !.rev.pc = "done", !.rev.rev = StoreRev + 1]
          ELSE /\ rg' = [rg EXCEPT !.rev.pc = "error"]
               /\ UNCHANGED log
    /\ UNCHANGED <<pp, issued, hs, sc, ws>>

\* Store.RegisterInstance, lines 155-168: Getuid and the snapshot of the store.
RegisterInstanceBegin ==
    /\ rg.ins.pc \in {"idle", "done"}
    /\ MayRegister
    /\ NextId <= MaxRegIns
    /\ rg' = [rg EXCEPT !.ins = [idleReg EXCEPT !.pc = "write", !.sp = StoreRev,
                                               !.id = NextId, !.w = 1]]
    /\ UNCHANGED <<log, pp, issued, hs, sc, ws>>

\* Store.RegisterInstance, lines 170-195: object, start, the lookup entry and
\* registered, one request each; the handle returned is at the revision of the
\* last one and goes to the caller.
RegisterInstanceWrite ==
    /\ rg.ins.pc = "write"
    /\ log' = Append(log, RegisterWrites(rg.ins.id, "env", rg.ins.sp, 0)[rg.ins.w])
    /\ IF rg.ins.w < 4
          THEN /\ rg' = [rg EXCEPT !.ins.w = @ + 1]
               /\ UNCHANGED hs
          ELSE /\ rg' = [rg EXCEPT !.ins.pc = "done", !.ins.rev = StoreRev + 1]
               /\ hs' = [hs EXCEPT ![1] = newHandle(rg.ins.id, StoreRev + 1, "pending")]
    /\ UNCHANGED <<pp, issued, sc, ws>>

(***************************************************************************)
(* The registrations of an app, its revision, its proc (proc 0) and its    *)
(* instances, and the calls a caller makes on the instance registered.     *)
(***************************************************************************)
InitReg ==
    /\ log = <<[p |-> nextPortPath, set |-> TRUE, v |-> <<startPort>>, at |-> 0, by |-> 0]>>
    /\ pp = [p \in {0} |-> idleProc]
    /\ issued = <<>>
    /\ hs = [h \in Handles |-> newHandle(0, 0, "")]
    /\ sc = <<>>
    /\ ws = <<>>
    /\ rg = [test |-> FALSE, app |-> idleReg, rev |-> idleReg, ins |-> idleReg]

ProcRegister == MayRegister /\ PRegBegin(0)

NextReg ==
    \/ AppRegisterBegin
    \/ AppRegisterAttrs
    \/ \E k \in AppEnv : AppRegisterEnv(k)
    \/ AppRegisterRegistered
    \/ RevRegisterBegin
    \/ RevRegisterArchive
    \/ RevRegisterRegistered
    \/ RegisterInstanceBegin
    \/ RegisterInstanceWrite
    \/ ProcRegister
    \/ PClaimRead(0)
    \/ PClaimSet(0)
    \/ PSave(0)
    \/ MayRegister /\ ClaimBegin(1, ScaleHost)
    \/ ClaimSet(1)
    \/ ClaimMark(1)
    \/ MayRegister /\ ExitedBegin(1, ScaleHost)
    \/ MayRegister /\ LostBegin(1, ScaleHost)
    \/ UpdStatus(1)
    \/ ExitedDel(1)
    \/ UpdateLookup(1)
    \/ MayRegister /\ UnregisterBegin(1, ScaleHost)
    \/ UpdateLookupSave(1)
    \/ UpdateLookupDel(1)
    \/ UnregisterDel(1)

SpecReg == InitReg /\ [][NextReg]_vars

(***************************************************************************)
(* Store.WatchEvent.  A watcher waits on "**" from its snapshot on, which  *)
(* yields the mutations of the store one by one in the order of their      *)
(* revisions, and sends an Event for those it classifies and its filter    *)
(* lets pass.  The listener is a channel that is always received from.     *)
(***************************************************************************)
\* The EventTypes.
Ev ==
    [AppReg |-> "app-register", AppUnreg |-> "app-unregister",
     RevReg |-> "rev-register", RevUnreg |-> "rev-unregister",
     ProcReg |-> "proc-register", ProcUnreg |-> "proc-unregister",
     ProcAttrs |-> "proc-attrs",
     InsReg |-> "instance-register", InsUnreg |-> "instance-unregister",
     InsStart |-> "instance-start", InsStop |-> "instance-stop",
     InsFail |-> "instance-fail", InsExit |-> "instance-exit",
     InsLost |-> "instance-lost", InsUnclaim |-> "instance-unclaim",
     Unknown |-> "UNKNOWN"]

\* eventPatterns: the category of a path, "" when no pattern matches it.
eventPathAnyAppFile(path) ==
    CASE path[1] = "app" /\ path[3] \in {"registered", "attrs"} \cup AppEnv -> "pathApp"
      [] path = appPath(revRegisteredPath) -> "pathRev"
      [] path[1] = "proc" /\ path[3] = "registered" -> "pathProc"
      [] path[1] = "proc" /\ path[3] = "attrs" -> "pathProcAttrs"
      [] path[1] = "ins" /\ path[3] = "registered" -> "pathInsRegistered"
      [] path[1] = "ins" /\ path[3] = "status" -> "pathInsStatus"
      [] path[1] = "ins" /\ path[3] = "start" -> "pathInsStart"
      [] path[1] = "ins" /\ path[3] = "stop" -> "pathInsStop"
      [] OTHER -> ""

eventPath(path) ==
    CASE path = appPath("registered") -> "pathApp"
      [] path = appPath(revRegisteredPath) -> "pathRev"
      [] path[1] = "proc" /\ path[3] = "registered" -> "pathProc"
      [] path[1] = "proc" /\ path[3] = "attrs" -> "pathProcAttrs"
      [] path[1] = "ins" /\ path[3] = "registered" -> "pathInsRegistered"
      [] path[1] = "ins" /\ path[3] = "status" -> "pathInsStatus"
      [] path[1] = "ins" /\ path[3] = "start" -> "pathInsStart"
      [] path[1] = "ins" /\ path[3] = "stop" -> "pathInsStop"
      [] OTHER -> ""

\* The type of a mutation of a start file: InsStart for a body of more than one
\* field, InsUnclaim for an empty body set on a path that existed at the
\* previous revision, nothing for the empty start of a registration and for
\* the one field of a Claim.
newEventStart(k) ==
    IF ~log[k].set THEN Ev.Unknown
    ELSE IF Len(log[k].v) > 1 THEN Ev.InsStart
    ELSE IF Len(log[k].v) = 0 /\ ExistsAt(log[k].p, k - 1) THEN Ev.InsUnclaim
    ELSE Ev.Unknown

\* newEvent: the type of mutation k, from the category of its path, whether it
\* is a set or a del, and its body.
newEventWithoutStop(k) ==
    LET src == log[k]
        ev == eventPath(src.p)
    IN  CASE ev = "pathApp" -> IF src.set THEN Ev.AppReg ELSE Ev.AppUnreg
          [] ev = "pathRev" -> IF src.set THEN Ev.RevReg ELSE Ev.RevUnreg
          [] ev = "pathProc" -> IF src.set THEN Ev.ProcReg ELSE Ev.ProcUnreg
          [] ev = "pathProcAttrs" -> IF src.set THEN Ev.ProcAttrs ELSE Ev.Unknown
          [] ev = "pathInsRegistered" -> IF src.set THEN Ev.InsReg ELSE Ev.InsUnreg
          [] ev = "pathInsStart" -> newEventStart(k)
          [] ev = "pathInsStop" -> Ev.Unknown
          [] ev = "pathInsStatus" ->
                IF ~src.set THEN Ev.Unknown
                ELSE CASE src.v[1] = "running" -> Ev.InsStart
                       [] src.v[1] = "exited" -> Ev.InsExit
                       [] src.v[1] = "failed" -> Ev.InsFail
                       [] src.v[1] = "lost" -> Ev.InsLost
                       [] OTHER -> Ev.Unknown
          [] OTHER -> Ev.Unknown

newEvent(k) ==
    LET src == log[k]
        ev == eventPath(src.p)
    IN  CASE ev = "pathApp" -> IF src.set THEN Ev.AppReg ELSE Ev.AppUnreg
          [] ev = "pathRev" -> IF src.set THEN Ev.RevReg ELSE Ev.RevUnreg
          [] ev = "pathProc" -> IF src.set THEN Ev.ProcReg ELSE Ev.ProcUnreg
          [] ev = "pathProcAttrs" -> IF src.set THEN Ev.ProcAttrs ELSE Ev.Unknown
          [] ev = "pathInsRegistered" -> IF src.set THEN Ev.InsReg ELSE Ev.InsUnreg
          [] ev = "pathInsStart" -> newEventStart(k)
          [] ev = "pathInsStop" -> IF src.set THEN Ev.InsStop ELSE Ev.Unknown
          [] ev = "pathInsStatus" ->
                IF ~src.set THEN Ev.Unknown
                ELSE CASE src.v[1] = "running" -> Ev.InsStart
                       [] src.v[1] = "exited" -> Ev.InsExit
                       [] src.v[1] = "failed" -> Ev.InsFail
                       [] src.v[1] = "lost" -> Ev.InsLost
                       [] OTHER -> Ev.Unknown
          [] OTHER -> Ev.Unknown

\* Event.match: never an event of unknown type, every other one for an empty
\* filter, else those of the types listed.
matchUnknown(type, filter) == filter = {} \/ type \in filter

match(type, filter) ==
    /\ type # Ev.Unknown
    /\ filter = {} \/ type \in filter

\* What a getter or enrich returns: a kind and the fields read; the kind is
\* "error" for an error and "nil" for no object.
Loaded(kind, val) == [kind |-> kind, val |-> val]

\* getApp at revision r: attrs and registered must be there.
getApp(r) ==
    IF ExistsAt(appPath("attrs"), r) /\ ExistsAt(appPath("registered"), r)
       THEN Loaded("App", GetAt(appPath("attrs"), r) \o GetAt(appPath("registered"), r))
       ELSE Loaded("error", <<>>)

\* getRevision at revision r: archive-url and registered must be there.
getRevision(r) ==
    IF ExistsAt(appPath(archiveURLPath), r) /\ ExistsAt(appPath(revRegisteredPath), r)
       THEN Loaded("Revision", GetAt(appPath(archiveURLPath), r))
       ELSE Loaded("error", <<>>)

\* getProc at revision r of the proc of path: port and registered must be there.
getProc(path, r) ==
    IF ExistsAt(<<"proc", path[2], "port">>, r) /\ ExistsAt(<<"proc", path[2], "registered">>, r)
       THEN Loaded("Proc", GetAt(<<"proc", path[2], "port">>, r))
       ELSE Loaded("error", <<>>)

\* The event types whose Source is the Instance, as the switch of enrich lists them.
InsSourced == {Ev.InsReg, Ev.InsStart, Ev.InsStop, Ev.InsFail, Ev.InsExit, Ev.InsLost}

\* An InsUnclaim is enriched with the Instance too.
UnclaimSourced == {Ev.InsUnclaim}

\* Event.enrich for mutation k classified as type: the Source loaded at the
\* revision of the event.  The error of getInstance is assigned to a variable
\* of the case clause and is lost: the Source is then a nil Instance, of
\* status "".
enrich(k, type) ==
    LET underApp == eventPath(log[k].p) \in {"pathApp", "pathRev", "pathProc", "pathProcAttrs"}
    IN  IF ~log[k].set THEN Loaded("nil", <<>>)
        ELSE IF underApp /\ getApp(k).kind = "error" THEN Loaded("error", <<>>)
        ELSE CASE type = Ev.AppReg -> getApp(k)
               [] type = Ev.RevReg -> getRevision(k)
               [] type \in {Ev.ProcReg, Ev.ProcAttrs} -> getProc(log[k].p, k)
               [] type \in InsSourced \cup UnclaimSourced ->
                     Loaded("Instance", <<getInstanceStatus(log[k].p[2], k)>>)
               [] OTHER -> Loaded("nil", <<>>)

Watchers == {1, 2}

\* The filters the filtered watcher is started with.
Filters == {{Ev.AppReg, Ev.InsStart, Ev.InsUnreg}}

offWatch == [pc |-> "off", sp |-> 0, start |-> 0, filter |-> {}, out |-> <<>>]

\* The Event sent for mutation k.
Event(k, type) ==
    [Type |-> type, rev |-> k, Path |-> <<log[k].p[1], log[k].p[2]>>, Source |-> enrich(k, type)]

\* go WatchEvent(listener, filter...) on a store at revision r: watcher 1 is
\* started without a filter, watcher 2 with one and on the snapshot of watcher 1.
WatchEvent(w, r, filter) ==
    /\ ws[w].pc = "off"
    /\ w = 1 => filter = {}
    /\ w = 2 => filter # {} /\ ws[1].pc # "off" /\ r = ws[1].start
    /\ ws' = [ws EXCEPT ![w] = [offWatch EXCEPT !.pc = "run", !.sp = r, !.start = r,
                                                !.filter = filter]]
    /\ UNCHANGED <<log, pp, issued, hs, sc, rg>>

\* The revision the snapshot of the watcher is at after Wait yielded mutation
\* k and the snapshot joined it.
WatchNextSkipping(w, k) == IF match(newEvent(k), ws[w].filter) /\ k < StoreRev THEN k + 1 ELSE k

WatchNext(w, k) == k

\* One turn of the loop of WatchEvent, lines 291-309: Wait yields the mutation
\* after the snapshot, which joins it; the event is made, matched against the
\* filter, enriched and sent.  An error of enrich ends WatchEvent.
WatchStep(w) ==
    /\ ws[w].pc = "run"
    /\ ws[w].sp < StoreRev
    /\ LET k == ws[w].sp + 1
           type == newEvent(k)
           c == [ws[w] EXCEPT !.sp = WatchNext(w, k)]
       IN  ws' = [ws EXCEPT ![w] =
                    IF ~match(type, c.filter) THEN c
                    ELSE IF enrich(k, type).kind = "error" THEN [c EXCEPT !.pc = "error"]
                    ELSE [c EXCEPT !.out = Append(c.out, Event(k, type))]]
    /\ UNCHANGED <<log, pp, issued, hs, sc, rg>>

(***************************************************************************)
(* The program of the event tests with its watchers: it registers the app  *)
(* and its revision, or not, registers an instance and takes it through    *)
(* Claim, Unclaim, Claim, Started, Stop, Failed, Exited and Unregister,    *)
(* one call after the other and for as long as the calls succeed.  The     *)
(* watchers are started on the store as it was initially or on the         *)
(* instance RegisterInstance returned.                                     *)
(***************************************************************************)
TestHost == "10.0.0.1"

OtherHost == "10.0.0.2"

\* The program is between calls.
TestIdle == RegsInProgress = 0

\* The call the program makes next on the instance, "" for none.
Todo ==
    LET i == hs[1]
    IN  IF i.id = 0 \/ ~TestIdle THEN ""
        ELSE IF i.op = "" THEN "Claim"
        ELSE IF i.err # "ok" THEN ""
        ELSE CASE i.op = "Claim" -> IF i.host = OtherHost THEN "Unclaim" ELSE "Started"
               [] i.op = "Unclaim" -> "Claim"
               [] i.op = "Started" -> "Stop"
               [] i.op = "Stop" -> "Failed"
               [] i.op = "Failed" -> "Exited"
               [] i.op = "Exited" -> "Unregister"
               [] OTHER -> ""

\* The snapshots a watcher is started on.
WatchSnapshots == {0} \cup (IF hs[1].id # 0 /\ hs[1].op = "" THEN {hs[1].rev} ELSE {})

InitWatch ==
    /\ log = <<>>
    /\ pp = <<>>
    /\ issued = <<>>
    /\ hs = [h \in Handles |-> newHandle(0, 0, "")]
    /\ sc = <<>>
    /\ ws = [w \in Watchers |-> offWatch]
    /\ rg = [test |-> TRUE, app |-> idleReg, rev |-> idleReg, ins |-> idleReg]

NextWatch ==
    \/ TestIdle /\ rg.ins.pc = "idle" /\ rg.app.pc = "idle" /\ AppRegisterBegin
    \/ AppRegisterAttrs
    \/ \E k \in AppEnv : AppRegisterEnv(k)
    \/ AppRegisterRegistered
    \/ TestIdle /\ rg.ins.pc = "idle" /\ rg.rev.pc = "idle" /\ RevRegisterBegin
    \/ RevRegisterArchive
    \/ RevRegisterRegistered
    \/ TestIdle /\ RegisterInstanceBegin
    \/ RegisterInstanceWrite
    \/ Todo = "Claim" /\ ClaimBegin(1, IF hs[1].op = "" THEN OtherHost ELSE TestHost)
    \/ ClaimSet(1)
    \/ ClaimMark(1)
    \/ Todo = "Unclaim" /\ UnclaimBegin(1, OtherHost)
    \/ UnclaimSet(1)
    \/ Todo = "Started" /\ StartedBegin(1, TestHost)
    \/ StartedSave(1)
    \/ Todo = "Stop" /\ StopBegin(1)
    \/ StopSet(1)
    \/ Todo = "Failed" /\ FailedBegin(1, TestHost)
    \/ Todo = "Exited" /\ ExitedBegin(1, TestHost)
    \/ UpdStatus(1)
    \/ ExitedDel(1)
    \/ UpdateLookup(1)
    \/ Todo = "Unregister" /\ UnregisterBegin(1, TestHost)
    \/ UpdateLookupSave(1)
    \/ UpdateLookupDel(1)
    \/ UnregisterDel(1)
    \/ \E w \in Watchers : \E r \in WatchSnapshots : \E filter \in Filters \cup {{}} :
          WatchEvent(w, r, filter)
    \/ \E w \in Watchers : WatchStep(w)

SpecWatch == InitWatch /\ [][NextWatch]_vars

\* The watchers take their turns: a Wait that can return does return.
FairSpecWatch == SpecWatch /\ \A w \in Watchers : WF_vars(WatchStep(w))

(***************************************************************************)
(* What the claims about WatchEvent speak of.                              *)
(***************************************************************************)
\* Watcher w's filter accepts the event of mutation k.
Accepted(w, k) == match(newEvent(k), ws[w].filter)

\* The places of the events for mutation k among those watcher w sent.
DeliveredAt(w, k) == {n \in 1..Len(ws[w].out) : ws[w].out[n].rev = k}

\* Watcher w sent its events in the order of their revisions, each for a
\* mutation after its starting revision that its filter accepts.
InOrder(w) ==
    /\ \A a, b \in 1..Len(ws[w].out) : a < b => ws[w].out[a].rev < ws[w].out[b].rev
    /\ \A n \in 1..Len(ws[w].out) :
          /\ ws[w].out[n].rev \in (ws[w].start + 1)..ws[w].sp
          /\ Accepted(w, ws[w].out[n].rev)
          /\ ws[w].out[n].Type = newEvent(ws[w].out[n].rev)

\* Watcher w sent an event for every accepted mutation after its start.
DeliveredAll(w) ==
    \A k \in (ws[w].start + 1)..StoreRev : Accepted(w, k) => DeliveredAt(w, k) # {}

\* C12 as claimed: a watcher sends its events in strictly increasing revision
\* order, every mutation after its starting revision that classifies to a type
\* its filter accepts is sent exactly once when the watcher has passed it, and
\* every such mutation is passed: again and again (the store of the test
\* program stops changing) all of them have been sent.
C12_DeliversEachOnce ==
    /\ [](\A w \in Watchers :
            /\ InOrder(w)
            /\ \A k \in (ws[w].start + 1)..ws[w].sp :
                  Accepted(w, k) => Cardinality(DeliveredAt(w, k)) = 1)
    /\ \A w \in Watchers : []<>(ws[w].pc # "off" => DeliveredAll(w))

\* C12 amended: the same for as long as WatchEvent has not returned; it returns
\* when enrich fails for an accepted mutation, which is then the one its
\* snapshot is at and the only accepted mutation it passed without sending an
\* event.
C12_DeliversUntilError ==
    /\ [](\A w \in Watchers :
            /\ InOrder(w)
            /\ \A k \in (ws[w].start + 1)..ws[w].sp :
                  Accepted(w, k) =>
                     IF ws[w].pc = "error" /\ k = ws[w].sp
                        THEN DeliveredAt(w, k) = {} /\ enrich(k, newEvent(k)).kind = "error"
                        ELSE Cardinality(DeliveredAt(w, k)) = 1
            /\ ws[w].pc = "error" => Accepted(w, ws[w].sp))
    /\ \A w \in Watchers : []<>(ws[w].pc = "run" => DeliveredAll(w))

\* A watcher has returned with the error of enrich, and an accepted mutation
\* committed later is not sent.
C12_Witness ==
    \E w \in Watchers :
        /\ ws[w].pc = "error"
        /\ \E k \in (ws[w].sp + 1)..StoreRev : Accepted(w, k)

\* The types of the events watcher w sent for instance id, in the order sent.
InsTypes(w, id) ==
    LET evs == SelectSeq(ws[w].out, LAMBDA e : e.Path = <<"ins", id>>)
    IN  [n \in 1..Len(evs) |-> evs[n].Type]

IsPrefix(a, b) == Len(a) <= Len(b) /\ \A n \in 1..Len(a) : a[n] = b[n]

\* The unfiltered watcher was started on the instance RegisterInstance
\* returned, which is the one the program holds.
Observing ==
    /\ hs[1].id # 0 /\ rg.ins.id = hs[1].id /\ rg.ins.pc = "done"
    /\ ws[1].pc # "off" /\ ws[1].start = rg.ins.rev

\* The program took the instance through all its calls, ending with Unregister.
Undergone == hs[1].op = "Unregister" /\ hs[1].pc = "idle" /\ hs[1].err = "ok"

LifeEvents == <<Ev.InsUnclaim, Ev.InsStart, Ev.InsStop, Ev.InsFail, Ev.InsExit, Ev.InsUnreg>>

Restrict(q, filter) == SelectSeq(q, LAMBDA e : e.Type \in filter)

\* Watcher w has nothing more to send: it returned, or it waits at the latest
\* revision.
Settled(w) == ws[w].pc = "error" \/ (ws[w].pc = "run" /\ ws[w].sp = StoreRev)

\* No watcher sent an event for a mutation whose path matches no pattern.
OnlyPatterns ==
    \A w \in Watchers : \A n \in 1..Len(ws[w].out) : eventPath(log[ws[w].out[n].rev].p) # ""

\* C14 as claimed: when the filtered watcher and the unfiltered one, started on
\* the same snapshot, have nothing more to send, the filtered one has sent the
\* events of the unfiltered one whose type is in its filter, in the same order;
\* and no event is sent for a path that matches no pattern.
C14_FilteredIsRestriction ==
    /\ (Settled(1) /\ Settled(2)) => ws[2].out = Restrict(ws[1].out, ws[2].filter)
    /\ OnlyPatterns

\* C14 amended: whenever the two watchers are at the same revision, the
\* filtered one has sent the events of the unfiltered one whose type is in its
\* filter, in the same order, and if it returned there then so did the
\* unfiltered one; a filtered watcher that is ahead of an unfiltered one that
\* returned has sent those events and then others; no event is sent for a
\* path that matches no pattern.
C14_FilteredIsRestrictionAtRevision ==
    /\ (ws[2].pc # "off" /\ ws[1].sp = ws[2].sp) =>
          /\ ws[2].out = Restrict(ws[1].out, ws[2].filter)
          /\ ws[2].pc = "error" => ws[1].pc = "error"
    /\ (ws[2].pc # "off" /\ ws[1].pc = "error" /\ ws[2].sp >= ws[1].sp) =>
          IsPrefix(Restrict(ws[1].out, ws[2].filter), ws[2].out)
    /\ (ws[2].pc # "off" /\ Settled(1) /\ Settled(2) /\ ws[1].pc = "run") =>
          ws[2].out = Restrict(ws[1].out, ws[2].filter)
    /\ OnlyPatterns

\* The unfiltered watcher returned with the error of enrich; the filtered one,
\* started on the same snapshot, went on and sent events the other never sends.
C14_Witness ==
    /\ ws[1].pc = "error" /\ ws[2].pc = "run"
    /\ Settled(2)
    /\ Len(ws[2].out) >= 2
    /\ Len(ws[1].out) < Len(ws[2].out)

\* App.Register has returned the App; rg.app.rev is then the revision of its
\* registered file.
AppRegistered == rg.app.pc = "done"

\* The places of the events for the writes of App.Register among those watcher
\* w sent.
AppEvents(w) == {n \in 1..Len(ws[w].out) : ws[w].out[n].Path = <<"app", 0>>
                                           /\ ws[w].out[n].rev <= rg.app.rev}

\* C15: a watcher that runs while App.Register succeeds is sent exactly one
\* event for the writes of that Register: none before it has passed the set of
\* registered, and from then on one AppReg for that set, with the app as Path
\* and as Source the App read at that revision, its attrs and registered
\* there; and the watcher does pass it.
C15_OneAppReg ==
    /\ [](\A w \in Watchers :
            (ws[w].pc = "run" /\ rg.app.pc \in {"attrs", "env"}) =>
               \A n \in 1..Len(ws[w].out) : ws[w].out[n].Path # <<"app", 0>>)
    /\ [](\A w \in Watchers :
            (ws[w].pc = "run" /\ AppRegistered /\ ws[w].start < rg.app.rev) =>
               IF ws[w].sp < rg.app.rev THEN AppEvents(w) = {}
               ELSE /\ Cardinality(AppEvents(w)) = 1
                    /\ \A n \in AppEvents(w) :
                          /\ ws[w].out[n].Type = Ev.AppReg
                          /\ ws[w].out[n].rev = rg.app.rev
                          /\ ws[w].out[n].Source =
                                Loaded("App", <<"repo", "stack", "lxc", "ts">>))
    /\ \A w \in Watchers :
          (ws[w].pc = "run" /\ AppRegistered /\ ws[w].start < rg.app.rev)
             ~> (AppEvents(w) # {})

\* Both watchers ran while App.Register wrote attrs, two variables and
\* registered, and each has been sent the AppReg.
C15_Witness ==
    /\ AppRegistered
    /\ \A k \in AppEnv : ExistsAt(appPath(k), rg.app.rev)
    /\ \A w \in Watchers :
          /\ ws[w].pc = "run" /\ ws[w].start = 0
          /\ \E n \in 1..Len(ws[w].out) : ws[w].out[n].Type = Ev.AppReg

(***************************************************************************)
(* What the claim about the order of a Register's writes speaks of.        *)
(***************************************************************************)
\* The files Register writes besides registered, for the app, its revision,
\* its proc and instance id.
AppParts == {appPath("attrs")} \cup {appPath(k) : k \in AppEnv}

RevParts == {appPath(archiveURLPath)}

ProcParts == {procPath(0, "port"), procPath(0, "port-control")}

InsParts(id) == {insPath(id, "object"), insPath(id, "start"), procInstancesPath(id)}

\* The revision of the first set of path, 0 when it was never set.
FirstSet(path) ==
    LET ks == {k \in 1..StoreRev : log[k].p = path /\ log[k].set}
    IN  IF ks = {} THEN 0 ELSE CHOOSE k \in ks : \A j \in ks : k <= j

\* Every file of parts was set, and before registered was.
WrittenBefore(parts, registered) ==
    \A path \in parts : FirstSet(path) # 0 /\ FirstSet(path) < FirstSet(registered)

Unregistering(id) == \E k \in 1..StoreRev : log[k].p[1] = "ins" /\ log[k].p[2] = id /\ ~log[k].set

\* Exited has deleted the lookup entry of instance id, Failed or Lost has moved
\* it, or Unregister has moved it to done/<id>.
LookupMoved(id) ==
    \/ /\ ExistsAt(insPath(id, "status"), StoreRev)
       /\ GetAt(insPath(id, "status"), StoreRev)[1] \in {"exited", "failed", "lost"}
    \/ ExistsAt(procDonePath(id), StoreRev)

NextLock ==
    \E h \in Handles :
        \/ \E host \in Hosts : ClaimBegin(h, host)
        \/ ClaimSet(h)
        \/ ClaimMark(h)
        \/ UnclaimBegin(h, TestHost)
        \/ UnclaimSet(h)
        \/ StartedBegin(h, TestHost)
        \/ StartedSave(h)
        \/ RestartedBegin(h)
        \/ RestartedSet(h)
        \/ FailedBegin(h, TestHost)
        \/ LostBegin(h, TestHost)
        \/ ExitedBegin(h, TestHost)
        \/ UpdStatus(h)
        \/ ExitedDel(h)
        \/ UpdateLookup(h)
        \/ UpdateLookupSave(h)
        \/ UpdateLookupDel(h)
        \/ LockBegin(h, TestHost)
        \/ LockSet(h)
        \/ Unlock(h)

SpecLock == InitIns /\ [][NextLock]_vars

lockFile == insPath(1, "lock")

\* Mutation k is a Lock's write of the lock file.
IsLockWrite(k) == log[k].p = lockFile /\ log[k].set

\* The call of op that handle h made last has returned.
Returned(h, op) == hs[h].op = op /\ hs[h].pc = "idle"

\* C17: of the Lock calls that interleave on an unlocked instance at most one
\* succeeds and every other returns UNAUTHORIZED, and a Lock on an instance
\* whose lock file exists returns UNAUTHORIZED and leaves the file as it is:
\* no Lock writes the lock file while it exists, and every Lock that returned
\* an error returned UNAUTHORIZED.
C17_LockExclusive ==
    /\ \A k \in 1..StoreRev : IsLockWrite(k) => ~ExistsAt(lockFile, k - 1)
    /\ \A h \in Handles :
          (Returned(h, "Lock") /\ hs[h].err # "ok") => hs[h].err = "UNAUTHORIZED"

\* The calls that return the handle.
Mutators == {"Claim", "Unclaim", "Started", "Restarted", "Failed", "Lost", "Exited",
             "Lock", "Unlock"}

\* C18: every call of Claim, Unclaim, Started, Restarted, Failed, Lost, Exited,
\* Lock or Unlock that returned the handle without an error returned it at a
\* revision strictly greater than the one the handle had when the call began,
\* whether or not the call changed the store.
C18_RevisionAdvances ==
    \A h \in Handles :
        (hs[h].op \in Mutators /\ hs[h].pc = "idle" /\ hs[h].err = "ok")
           => hs[h].rev > hs[h].was.rev

\* C19: a call of Claim, Unclaim, Started, Restarted, Failed, Lost, Exited or
\* Lock that returned an error returned the handle it was called on, not nil,
\* and the handle has the status and the revision it had when the call began.
C19_ErrorReturnsUnchanged ==
    \A h \in Handles :
        (hs[h].op \in Mutators \ {"Unlock"} /\ hs[h].pc = "idle" /\ hs[h].err \notin {"", "ok"})
           => /\ hs[h].ret = "self"
              /\ hs[h].rev = hs[h].was.rev
              /\ hs[h].status = hs[h].was.status

(***************************************************************************)
(* Tags.  One app; its revisions are named by their refs and its tags by   *)
(* their names, which are strings of one kind.  The callers register       *)
(* revisions and tags; a Tag is made by NewTag from the App the callers    *)
(* hold, or read by GetTag and given a new ref.                            *)
(***************************************************************************)
Refs == {"123abcd", "d1324cs"}

TagNames == Refs \cup {"register"}

TagCallers == {1}

\* The callers commit no more tag files than this.
MaxTagWrites == 3

revFile(ref, file) == <<"revs", ref, file>>

tagFile(name) == <<"tags", name, "tag">>

\* sp.Getdir(revs) at snapshot revision r: the revisions that have a file.
Listed(r) ==
    {ref \in Refs : ExistsAt(revFile(ref, "archive-url"), r)
                       \/ ExistsAt(revFile(ref, "registered"), r)}

\* App.GetRevisions at snapshot revision r: getRevision of every listed ref,
\* which fails for one that lacks archive-url or registered; Getdir fails when
\* there is no revision at all.  Both errors satisfy IsErrNotFound.
GetRevisionsFails(r) ==
    \/ Listed(r) = {}
    \/ \E ref \in Listed(r) : ~ExistsAt(revFile(ref, "archive-url"), r)
                                 \/ ~ExistsAt(revFile(ref, "registered"), r)

\* Tag.Register, lines 54-65, over the revisions revs: the loop returns at a
\* revision of the tag's name, whether or not the target is among them.
validateTagTargetFirst(revs, name, ref) ==
    IF ref \notin revs THEN "NOT_FOUND"
    ELSE IF name \in revs THEN "TAG_SHADOWING" ELSE ""

validateTag(revs, name, ref) ==
    IF name \in revs THEN "TAG_SHADOWING"
    ELSE IF ref \notin revs THEN "NOT_FOUND" ELSE ""

noTag == [pc |-> "none", name |-> "", ref |-> "", rev |-> 0, sp |-> 0, err |-> ""]

TagWrites == {k \in 1..StoreRev : log[k].p[1] = "tags"}

\* Store.GetApp, or FastForward of the App: the callers' App is at the latest
\* revision.
GetAppHandle ==
    /\ rg.app < StoreRev
    /\ \A c \in TagCallers : rg.tags[c].pc \in {"none", "ready"}
    /\ rg' = [rg EXCEPT !.app = StoreRev]
    /\ UNCHANGED <<log, pp, issued, hs, sc, ws>>

\* Revision.Register, event.go lines 289-302: the revision must not exist at the
\* latest revision; archive-url is set.  A call that finds the revision
\* returns ErrConflict and changes nothing.
RevisionRegisterArchive(ref) ==
    /\ rg.revs[ref] = "idle"
    /\ ref \notin Listed(StoreRev)
    /\ log' = SetFile(revFile(ref, "archive-url"), <<"url">>, StoreRev, 0)
    /\ rg' = [rg EXCEPT !.revs[ref] = "archived"]
    /\ UNCHANGED <<pp, issued, hs, sc, ws>>

\* Revision.Register, event.go lines 306-316: registered is set.
RevisionRegisterRegistered(ref) ==
    /\ rg.revs[ref] = "archived"
    /\ log' = SetFile(revFile(ref, "registered"), <<"ts">>, StoreRev, 0)
    /\ rg' = [rg EXCEPT !.revs[ref] = "done"]
    /\ UNCHANGED <<pp, issued, hs, sc, ws>>

\* Revision.Unregister, event.go lines 319-325: Del("/") of the revision's
\* directory at the latest revision deletes archive-url, then registered.  A
\* revision is unregistered once.
RevisionUnregisterArchive(ref) ==
    /\ rg.revs[ref] = "done"
    /\ log' = DelFile(revFile(ref, "archive-url"), StoreRev, 0)
    /\ rg' = [rg EXCEPT !.revs[ref] = "deleting"]
    /\ UNCHANGED <<pp, issued, hs, sc, ws>>

RevisionUnregisterRegistered(ref) ==
    /\ rg.revs[ref] = "deleting"
    /\ log' = DelFile(revFile(ref, "registered"), StoreRev, 0)
    /\ rg' = [rg EXCEPT !.revs[ref] = "gone"]
    /\ UNCHANGED <<pp, issued, hs, sc, ws>>

\* App.NewTag(name, ref): the Tag's file is at the snapshot of the App.
NewTag(c, name, ref) ==
    /\ rg.tags[c].pc \in {"none", "ready"}
    /\ rg' = [rg EXCEPT !.tags[c] = [noTag EXCEPT !.pc = "ready", !.name = name,
                                                  !.ref = ref, !.rev = rg.app]]
    /\ UNCHANGED <<log, pp, issued, hs, sc, ws>>

\* App.GetTag(name), lines 91-97 and 166-182, and the caller's tag.Ref = ref:
\* the Tag's file is at the latest revision.
GetTag(c, name, ref) ==
    /\ rg.tags[c].pc \in {"none", "ready"}
    /\ ExistsAt(tagFile(name), StoreRev)
    /\ rg' = [rg EXCEPT !.tags[c] = [noTag EXCEPT !.pc = "ready", !.name = name,
                                                  !.ref = ref, !.rev = StoreRev]]
    /\ UNCHANGED <<log, pp, issued, hs, sc, ws>>

\* Tag.Register, lines 46-65: GetRevisions, which fast-forwards, and the loop.
TagRegisterBegin(c) ==
    /\ rg.tags[c].pc = "ready"
    /\ Cardinality(TagWrites) < MaxTagWrites
    /\ LET t == [rg.tags[c] EXCEPT !.sp = StoreRev]
           e == IF GetRevisionsFails(StoreRev) THEN "NOT_FOUND"
                ELSE validateTag(Listed(StoreRev), t.name, t.ref)
       IN  rg' = [rg EXCEPT !.tags[c] = IF e # "" THEN [t EXCEPT !.err = e]
                                        ELSE [t EXCEPT !.pc = "set", !.err = ""]]
    /\ UNCHANGED <<log, pp, issued, hs, sc, ws>>

\* Tag.Register, lines 67-71: t.file.Set(t) against the revision of the Tag's
\* file, which joins the result.
TagRegisterSet(c) ==
    /\ rg.tags[c].pc = "set"
    /\ LET t == rg.tags[c]
       IN  IF CasOk(tagFile(t.name), t.rev)
              THEN /\ log' = SetFile(tagFile(t.name), <<t.name, t.ref>>, t.rev, c)
                   /\ rg' = [rg EXCEPT !.tags[c] =
                               [t EXCEPT !.pc = "ready", !.err = "ok", !.rev = StoreRev + 1]]
              ELSE /\ rg' = [rg EXCEPT !.tags[c] =
                               [t EXCEPT !.pc = "ready", !.err = "REV_MISMATCH"]]
                   /\ UNCHANGED log
    /\ UNCHANGED <<pp, issued, hs, sc, ws>>

InitTag ==
    /\ log = <<>>
    /\ pp = <<>>
    /\ issued = <<>>
    /\ hs = <<>>
    /\ sc = <<>>
    /\ ws = <<>>
    /\ rg = [test |-> FALSE, app |-> 0, revs |-> [ref \in Refs |-> "idle"],
             tags |-> [c \in TagCallers |-> noTag]]

NextTag ==
    \/ GetAppHandle
    \/ \E ref \in Refs : RevisionRegisterArchive(ref)
    \/ \E ref \in Refs : RevisionRegisterRegistered(ref)
    \/ \E c \in TagCallers : \E name \in TagNames : \E ref \in Refs : NewTag(c, name, ref)
    \/ \E c \in TagCallers : \E name \in TagNames : \E ref \in Refs : GetTag(c, name, ref)
    \/ \E c \in TagCallers : TagRegisterBegin(c)
    \/ \E c \in TagCallers : TagRegisterSet(c)

SpecTag == InitTag /\ [][NextTag]_vars

\* In this step the Register call of caller c returns.
TagReturns(c) ==
    rg'.tags[c] # rg.tags[c] /\ rg'.tags[c].pc = "ready" /\ rg'.tags[c].err # ""

\* In this step nothing is written.
TagsUnchanged == log' = log

\* In this step the tag of caller c, and nothing else, is written.
TagStored(c) ==
    /\ Len(log') = Len(log) + 1
    /\ SubSeq(log', 1, Len(log)) = log
    /\ log'[Len(log')].p = tagFile(rg'.tags[c].name)
    /\ log'[Len(log')].set
    /\ log'[Len(log')].v = <<rg'.tags[c].name, rg'.tags[c].ref>>

\* C20: Tag.Register fails with TAG_SHADOWING when some revision of the app, at
\* the snapshot the call reads, has the tag's name as its ref, fails with
\* NOT_FOUND when none has the tag's target ref, and writes nothing in both
\* cases; otherwise it succeeds and the tag is stored, also when a tag of that
\* name exists.
C20_TagRegister ==
    [][\A c \in TagCallers :
          TagReturns(c) =>
              LET t == rg'.tags[c]
              IN  IF t.name \in Listed(t.sp)
                     THEN t.err = "TAG_SHADOWING" /\ TagsUnchanged
                  ELSE IF t.ref \notin Listed(t.sp)
                     THEN t.err = "NOT_FOUND" /\ TagsUnchanged
                  ELSE t.err = "ok" /\ TagStored(c)]_vars

\* C20 as the code has it: at the snapshot the call reads, a revision that
\* lacks archive-url or registered (one being registered) makes the call fail
\* with NOT_FOUND; else a revision of the tag's name makes it fail with
\* TAG_SHADOWING, also when the target is unknown; else an unknown target makes
\* it fail with NOT_FOUND; else the tag is stored, over an existing tag too,
\* when the tag file was not written after the revision the Tag holds, and
\* the call fails with the revision mismatch when it was.  A call that fails
\* writes nothing.
C20_TagRegisterAtSnapshot ==
    [][\A c \in TagCallers :
          TagReturns(c) =>
              LET t == rg'.tags[c]
                  revs == Listed(t.sp)
                  whole == \A ref \in revs :
                              /\ ExistsAt(revFile(ref, "archive-url"), t.sp)
                              /\ ExistsAt(revFile(ref, "registered"), t.sp)
              IN  IF ~whole
                     THEN t.err = "NOT_FOUND" /\ TagsUnchanged
                  ELSE IF t.name \in revs
                     THEN t.err = "TAG_SHADOWING" /\ TagsUnchanged
                  ELSE IF t.ref \notin revs
                     THEN t.err = "NOT_FOUND" /\ TagsUnchanged
                  ELSE IF FileRev(tagFile(t.name)) <= rg.tags[c].rev
                     THEN t.err = "ok" /\ TagStored(c)
                  ELSE t.err = "REV_MISMATCH" /\ TagsUnchanged]_vars

\* A Register has just stored its tag over an existing tag of another ref.
C20_Witness ==
    \E c \in TagCallers : \E j, k \in TagWrites :
        /\ j < k /\ k = StoreRev
        /\ log[j].p = log[k].p /\ log[j].v # log[k].v
        /\ rg.tags[c].pc = "ready" /\ rg.tags[c].err = "ok" /\ rg.tags[c].rev = k

\* C21: no stored tag of the app has a name that is the ref of a registered
\* revision of the app, whatever the order of the Tag.Register and
\* Revision.Register calls.
C21_TagRevisionDisjoint ==
    \A name \in TagNames :
        ~(/\ ExistsAt(tagFile(name), StoreRev)
          /\ name \in Refs
          /\ ExistsAt(revFile(name, "registered"), StoreRev))

(***************************************************************************)
(* LookupRevision, on the stores that calls made one after the other       *)
(* leave: revisions are registered and unregistered, tags registered and   *)
(* registered anew, and no call begins while another is in progress.       *)
(***************************************************************************)
\* getRevision(a, ref, sp) at snapshot revision r finds the revision: it has
\* archive-url and registered.
RevisionFound(ref, r) ==
    /\ ExistsAt(revFile(ref, "archive-url"), r)
    /\ ExistsAt(revFile(ref, "registered"), r)

\* App.LookupRevision(x), lines 143-164, at snapshot revision r: the ref of
\* the revision it returns, or NOT_FOUND.  The revision of ref x comes before
\* the tag of name x.
LookupRevisionTagFirst(x, r) ==
    IF ExistsAt(tagFile(x), r)
       THEN IF RevisionFound(GetAt(tagFile(x), r)[2], r)
               THEN GetAt(tagFile(x), r)[2] ELSE "NOT_FOUND"
    ELSE IF RevisionFound(x, r) THEN x ELSE "NOT_FOUND"

LookupRevision(x, r) ==
    IF RevisionFound(x, r) THEN x
    ELSE IF ~ExistsAt(tagFile(x), r) THEN "NOT_FOUND"
    ELSE IF RevisionFound(GetAt(tagFile(x), r)[2], r)
            THEN GetAt(tagFile(x), r)[2] ELSE "NOT_FOUND"

\* No call on a revision, and none on a tag, is in progress.
RevQuiet == \A ref \in Refs : rg.revs[ref] \notin {"archived", "deleting"}

TagQuiet == \A c \in TagCallers : rg.tags[c].pc # "set"

NextLookup ==
    \/ RevQuiet /\ TagQuiet /\ GetAppHandle
    \/ \E ref \in Refs : RevQuiet /\ TagQuiet /\ RevisionRegisterArchive(ref)
    \/ \E ref \in Refs : RevisionRegisterRegistered(ref)
    \/ \E ref \in Refs : RevQuiet /\ TagQuiet /\ RevisionUnregisterArchive(ref)
    \/ \E ref \in Refs : RevisionUnregisterRegistered(ref)
    \/ \E c \in TagCallers : \E name \in TagNames : \E ref \in Refs :
          RevQuiet /\ NewTag(c, name, ref)
    \/ \E c \in TagCallers : \E name \in TagNames : \E ref \in Refs :
          RevQuiet /\ GetTag(c, name, ref)
    \/ \E c \in TagCallers : RevQuiet /\ TagRegisterBegin(c)
    \/ \E c \in TagCallers : TagRegisterSet(c)

SpecLookup == InitTag /\ [][NextLookup]_vars

\* What is looked up: the refs, the tag names and a name of neither.
Lookups == TagNames \cup {"unknown"}

\* The ref the stored tag of name x points to.
TagRef(x) == GetAt(tagFile(x), StoreRev)[2]

\* C22: LookupRevision(x) returns the revision of ref x when it exists;
\* otherwise, when a tag of name x exists, the revision the tag points to now;
\* otherwise NOT_FOUND.
C22_LookupRevision ==
    \A x \in Lookups :
        LookupRevision(x, StoreRev) =
            IF RevisionFound(x, StoreRev) THEN x
            ELSE IF ExistsAt(tagFile(x), StoreRev) THEN TagRef(x)
            ELSE "NOT_FOUND"

\* C22 as the code has it: the tag of name x resolves to the revision it
\* points to when that revision is registered, and to NOT_FOUND when it is not
\* (it was unregistered after the tag was stored).
C22_LookupRevisionRegistered ==
    \A x \in Lookups :
        LookupRevision(x, StoreRev) =
            IF RevisionFound(x, StoreRev) THEN x
            ELSE IF ExistsAt(tagFile(x), StoreRev) /\ RevisionFound(TagRef(x), StoreRev)
                    THEN TagRef(x)
            ELSE "NOT_FOUND"

\* The tag "register" was stored for one ref and then for the other, and is
\* resolved to the revision of the second; a name of neither kind is not found.
C22_Witness ==
    \E j, k \in TagWrites :
        /\ j < k
        /\ log[j].p = tagFile("register") /\ log[k].p = tagFile("register")
        /\ log[j].v # log[k].v
        /\ LastMut(tagFile("register"), StoreRev) = k
        /\ LookupRevision("register", StoreRev) = log[k].v[2]
        /\ LookupRevision("unknown", StoreRev) = "NOT_FOUND"

(***************************************************************************)
(* Store.Init, called through several Store handles while procs are        *)
(* registered.  Initially the store is empty: /next-port and the schema    *)
(* version are not set.                                                    *)
(***************************************************************************)
Stores == {1, 2}

schemaPath == <<"root", 0, "schema">>

idleInit == [pc |-> "idle", sp |-> 0]

\* Init, lines 1360-1365: whether /next-port is to be written, at snapshot
\* revision r.
InitSetsPortAlways(r) == TRUE

InitSetsPort(r) == ~ExistsAt(nextPortPath, r)

\* Init, lines 1355-1365: FastForward and Exists(nextPortPath).  Each handle
\* calls Init once.
InitBegin(s) ==
    /\ rg.init[s].pc = "idle"
    /\ rg' = [rg EXCEPT !.init[s] = [pc |-> IF InitSetsPort(StoreRev) THEN "set" ELSE "schema",
                                     sp |-> StoreRev]]
    /\ UNCHANGED <<log, pp, issued, hs, sc, ws>>

\* Init, lines 1365-1369: sp.Set(nextPortPath, startPort) against the snapshot.
InitSet(s) ==
    /\ rg.init[s].pc = "set"
    /\ IF CasOk(nextPortPath, rg.init[s].sp)
          THEN /\ log' = SetFile(nextPortPath, <<startPort>>, rg.init[s].sp, 0)
               /\ rg' = [rg EXCEPT !.init[s] = [pc |-> "schema", sp |-> StoreRev + 1]]
          ELSE /\ rg' = [rg EXCEPT !.init[s].pc = "error"]
               /\ UNCHANGED log
    /\ UNCHANGED <<pp, issued, hs, sc, ws>>

\* Init, lines 1371-1386: the schema version is set when the snapshot has none.
InitSchema(s) ==
    /\ rg.init[s].pc = "schema"
    /\ IF ExistsAt(schemaPath, rg.init[s].sp)
          THEN /\ rg' = [rg EXCEPT !.init[s].pc = "done"]
               /\ UNCHANGED log
          ELSE IF CasOk(schemaPath, rg.init[s].sp)
                  THEN /\ log' = SetFile(schemaPath, <<"5">>, rg.init[s].sp, 0)
                       /\ rg' = [rg EXCEPT !.init[s] = [pc |-> "done", sp |-> StoreRev + 1]]
                  ELSE /\ rg' = [rg EXCEPT !.init[s].pc = "error"]
                       /\ UNCHANGED log
    /\ UNCHANGED <<pp, issued, hs, sc, ws>>

InitStore ==
    /\ log = <<>>
    /\ pp = [p \in Procs |-> idleProc]
    /\ issued = <<>>
    /\ hs = <<>>
    /\ sc = <<>>
    /\ ws = <<>>
    /\ rg = [test |-> FALSE, init |-> [s \in Stores |-> idleInit]]

\* One proc is registered beside the Init calls.
NextStore ==
    \/ \E s \in Stores : InitBegin(s) \/ InitSet(s) \/ InitSchema(s)
    \/ PRegBegin(1) \/ PClaimRead(1) \/ PClaimSet(1) \/ PSave(1)

SpecStore == InitStore /\ [][NextStore]_vars

\* Mutation k is Init's write of /next-port.
IsInitWrite(k) == log[k].p = nextPortPath /\ log[k].by = 0

\* C23: Init writes /next-port = 8000 only when the file is absent, so that in
\* any interleaving of Init calls through several Store handles with
\* Proc.Register, /next-port never decreases and no port is issued twice.
C23_InitKeepsCounter ==
    /\ \A k \in 1..StoreRev :
          IsInitWrite(k) => log[k].v = <<startPort>> /\ ~ExistsAt(nextPortPath, k - 1)
    /\ \A j, k \in 1..StoreRev :
          j < k /\ log[j].p = nextPortPath /\ log[k].p = nextPortPath
             => log[j].v[1] <= log[k].v[1]
    /\ \A a, b \in 1..Len(issued) : a < b => issued[a] # issued[b]

\* One Init wrote /next-port and the proc was given its two ports; the Init
\* of another handle was called after that and has returned without writing
\* /next-port, and the counter stands after the ports.
C23_Witness ==
    \E s, t \in Stores :
        /\ s # t
        /\ rg.init[s].pc = "done" /\ rg.init[t].pc = "done"
        /\ Len(issued) = 2
        /\ \E k \in 1..StoreRev :
              /\ IsInitWrite(k)
              /\ \A j \in 1..StoreRev : IsInitWrite(j) => j = k
              /\ rg.init[t].sp > LastMut(nextPortPath, StoreRev)
        /\ NextPortValue = startPort + 2

\* ---------------------------------------------------------------------------
\* Register of an App, a Revision, a Proc and a Runner, called by several
\* callers for the same name.  rg.kind is the entity the callers register.

Kinds == {"app", "rev", "proc", "runner"}

RegCallers == {1, 2, 3}

entPath(kind, file) == <<kind, 0, file>>

\* The writes of Register in the order of the code; "claim" is a
\* claimNextPort call.
RegSteps(kind) ==
    CASE kind = "app" -> <<"attrs", "env", "registered">>
      [] kind = "rev" -> <<"archive-url", "registered">>
      [] kind = "proc" -> <<"claim", "port", "claim", "port-control", "registered">>
      [] kind = "runner" -> <<"runner">>

RegFiles(kind) == {RegSteps(kind)[n] : n \in 1..Len(RegSteps(kind))} \ {"claim"}

\* sp.Exists(dir.Name): the directory exists when a file under it does.
RegDirExists(kind, r) == \E file \in RegFiles(kind) : ExistsAt(entPath(kind, file), r)

\* The revision a write of Register is conditioned on: the snapshot sp of
\* the call, but the handle's directory for the variables and the registered
\* file of an App and for the registered file of a Revision.
SaveRevLatest(kind, file, c) == StoreRev

SaveRev(kind, file, c) ==
    IF kind \in {"app", "rev"} /\ file \in {"env", "registered"} THEN c.dir ELSE c.sp

\* The handle's directory after a write of Register that is not the last:
\* an App joins sp after attrs and the write after a variable.
JoinedDir(kind, file, c) ==
    IF kind = "app" /\ file = "attrs" THEN c.sp
    ELSE IF kind = "app" /\ file = "env" THEN StoreRev + 1
    ELSE c.dir

idleCaller == [pc |-> 0, sp |-> 1, dir |-> 1, err |-> "", port |-> 0]

\* Register up to the Exists test: FastForward, then CONFLICT when the
\* directory exists at sp.
RegisterBegin(c) ==
    /\ rg.regs[c].pc = 0 /\ rg.regs[c].err = ""
    /\ rg' = [rg EXCEPT !.regs[c] =
                 IF RegDirExists(rg.kind, StoreRev)
                    THEN [@ EXCEPT !.sp = StoreRev, !.err = "CONFLICT"]
                    ELSE [@ EXCEPT !.sp = StoreRev, !.pc = 1]]
    /\ UNCHANGED <<log, pp, issued, hs, sc, ws>>

\* claimNextPort at the iteration whose Set is accepted: the counter is read
\* at the latest revision and set to its successor before anyone else
\* writes it (the iterations before it wrote nothing).
RegisterClaim(c) ==
    /\ rg.regs[c].pc \in 1..Len(RegSteps(rg.kind))
    /\ RegSteps(rg.kind)[rg.regs[c].pc] = "claim"
    /\ log' = SetFile(nextPortPath, <<NextPortValue + 1>>, StoreRev, c)
    /\ rg' = [rg EXCEPT !.regs[c].pc = @ + 1, !.regs[c].port = NextPortValue]
    /\ UNCHANGED <<pp, issued, hs, sc, ws>>

\* One Save or Set of Register: an error of the store ends the call, the
\* last write ends it with success.
RegisterSave(c) ==
    LET r    == rg.regs[c]
        file == RegSteps(rg.kind)[r.pc]
        p    == entPath(rg.kind, file)
        last == r.pc = Len(RegSteps(rg.kind))
    IN  /\ r.pc \in 1..Len(RegSteps(rg.kind))
        /\ file # "claim"
        /\ IF CasOk(p, SaveRev(rg.kind, file, r))
              THEN /\ log' = SetFile(p, <<c>>, SaveRev(rg.kind, file, r), c)
                   /\ rg' = [rg EXCEPT !.regs[c] =
                                IF last THEN [@ EXCEPT !.pc = 0, !.err = "ok", !.dir = StoreRev + 1]
                                        ELSE [@ EXCEPT !.pc = @ + 1,
                                                       !.dir = JoinedDir(rg.kind, file, r)]]
              ELSE /\ rg' = [rg EXCEPT !.regs[c] = [@ EXCEPT !.pc = 0, !.err = "REV_MISMATCH"]]
                   /\ UNCHANGED log
        /\ UNCHANGED <<pp, issued, hs, sc, ws>>

\* The store is initialised (/next-port exists) and every caller holds a
\* handle made at that snapshot.
InitConflict ==
    /\ log = <<[p |-> nextPortPath, set |-> TRUE, v |-> <<startPort>>, at |-> 0, by |-> 0]>>
    /\ pp = <<>>
    /\ issued = <<>>
    /\ hs = <<>>
    /\ sc = <<>>
    /\ ws = <<>>
    /\ \E kind \in Kinds : rg = [test |-> FALSE, kind |-> kind, regs |-> [c \in RegCallers |-> idleCaller]]

NextConflict ==
    \E c \in RegCallers : RegisterBegin(c) \/ RegisterClaim(c) \/ RegisterSave(c)

SpecConflict == InitConflict /\ [][NextConflict]_vars

\* Caller c has written nothing.
WroteNothing(c) == \A k \in 1..StoreRev : log[k].by # c

\* C24: a Register whose path exists at its snapshot returns CONFLICT and
\* writes nothing, and of the concurrent Register calls for one name at most
\* one returns success.
C24_RegisterConflict ==
    /\ \A c \in RegCallers :
          (rg.regs[c].pc # 0 \/ rg.regs[c].err # "")
             => (RegDirExists(rg.kind, rg.regs[c].sp)
                    <=> (rg.regs[c].err = "CONFLICT"))
    /\ \A c \in RegCallers : rg.regs[c].err = "CONFLICT" => WroteNothing(c)
    /\ Cardinality({c \in RegCallers : rg.regs[c].err = "ok"}) <= 1

\* Two callers passed the Exists test before either wrote; one has
\* registered, the other was refused by the store, and a third, who called
\* after the first write, got CONFLICT.
C24_Witness ==
    \E a, b, c \in RegCallers :
        /\ rg.regs[a].err = "ok"
        /\ rg.regs[b].err = "REV_MISMATCH"
        /\ rg.regs[c].err = "CONFLICT"
        /\ ~RegDirExists(rg.kind, rg.regs[b].sp)

\* ---------------------------------------------------------------------------
\* Stop and Restarted, as SpecIns runs them.

\* What the files of instance id say at the latest revision.
InsGone(id) == ~ExistsAt(insPath(id, "object"), StoreRev)

InsNotRunning(id) ==
    \/ ExistsAt(insPath(id, "status"), StoreRev)
    \/ ExistsAt(insPath(id, "stop"), StoreRev)
    \/ ~ExistsAt(insPath(id, "start"), StoreRev)
    \/ Len(GetAt(insPath(id, "start"), StoreRev)) < 2

\* C25: Stop and Restarted act only on an instance that is running when it
\* is read again at the latest revision: on an instance that is not
\* registered both return NOT_FOUND, on one that is pending, claimed,
\* stopping, failed, lost or exited Stop returns INVALID_STATE and Restarted
\* returns without an error, and none of these calls writes; a stop or
\* restarts file is written only by a call that read the instance as running.
C25_StopRestartedRunningOnly ==
    [][\A h \in Handles :
          /\ (Begins(h, "Stop") \/ Begins(h, "Restarted")) =>
                /\ InsGone(hs[h].id) =>
                      /\ hs'[h].pc = "idle" /\ hs'[h].err = "NOT_FOUND"
                      /\ log' = log
                /\ ~InsGone(hs[h].id) /\ InsNotRunning(hs[h].id) =>
                      /\ hs'[h].pc = "idle"
                      /\ hs'[h].err = (IF hs'[h].op = "Stop" THEN "INVALID_STATE" ELSE "ok")
                      /\ log' = log
          /\ (hs[h].pc \in {"stop_set", "restarted_set"} /\ log' # log) =>
                getInstanceStatus(hs[h].id, hs[h].sp) = "running"
      ]_vars

\* A handle that was running when its call began has been refused by Stop
\* with INVALID_STATE because the instance read again was not running, and
\* nothing of that handle's call is in the store.
C25_Witness ==
    \E h \in Handles :
        /\ Returned(h, "Stop")
        /\ hs[h].err = "INVALID_STATE"
        /\ hs[h].was.status = "running"
        /\ ~InsGone(hs[h].id)
        /\ InsNotRunning(hs[h].id)

\* ---------------------------------------------------------------------------
\* GetInstance after the transitions of one caller, for each hostname the
\* caller may pass to Started.

GetCallers == {1}

InitGet ==
    /\ log = RegisterWrites(1, "env", 0, 0)
    /\ hs = [h \in Handles |-> newHandle(1, 4, "pending")]
    /\ pp = <<>>
    /\ issued = <<>>
    /\ sc = <<>>
    /\ ws = <<>>
    /\ \E hostname \in Hostnames : rg = [test |-> FALSE, hostname |-> hostname]

NextGet ==
    \E h \in GetCallers :
        \/ \E id \in InsIds : GetInstance(h, id)
        \/ \E host \in Hosts : ClaimBegin(h, host)
        \/ ClaimSet(h)
        \/ ClaimMark(h)
        \/ \E host \in Hosts : UnclaimBegin(h, host)
        \/ UnclaimSet(h)
        \/ \E host \in Hosts : StartedBegin(h, host)
        \/ StartedSave(h)
        \/ RestartedBegin(h)
        \/ RestartedSet(h)
        \/ StopBegin(h)
        \/ StopSet(h)
        \/ \E host \in Hosts : FailedBegin(h, host)
        \/ \E client \in Hosts : LostBegin(h, client)
        \/ \E host \in Hosts : ExitedBegin(h, host)
        \/ UpdStatus(h)
        \/ ExitedDel(h)
        \/ UpdateLookup(h)
        \/ UpdateLookupSave(h)
        \/ UpdateLookupDel(h)

SpecGet == InitGet /\ [][NextGet]_vars

\* The list last written to file of instance 1, as it was handed to the store.
Written(file) == GetAt(insPath(1, file), StoreRev)

\* Started has written the start file that instance 1 has now.
StartedStands ==
    /\ ExistsAt(insPath(1, "start"), StoreRev)
    /\ Len(Written("start")) = 4

\* The status by the rule of the claim: by the number of fields of start,
\* replaced by the status file, and stopping for running with a stop file.
StatusByRule ==
    LET n  == IF ExistsAt(insPath(1, "start"), StoreRev)
                 THEN Len(ListFields(Written("start"))) ELSE 0
        s0 == IF n = 0 THEN "pending" ELSE IF n = 1 THEN "claimed" ELSE "running"
        s1 == IF ExistsAt(insPath(1, "status"), StoreRev) THEN Written("status")[1] ELSE s0
    IN  IF s1 = "running" /\ ExistsAt(insPath(1, "stop"), StoreRev) THEN "stopping" ELSE s1

\* C26: GetInstance reconstructs what the transitions wrote: while the start
\* file written by Started(ip, host, port, telePort) stands, it reports the
\* same ip, port, host and telePort, and the restarts that Restarted wrote;
\* the status is pending, claimed or running by the number of fields of start,
\* replaced by the status file's value, and stopping when running with a stop
\* file.
C26_GetInstanceReconstructs ==
    getInstanceStatus(1, StoreRev) # "" =>
        /\ StartedStands =>
              getInstanceStart(1, StoreRev) =
                  [ip       |-> Written("start")[1],
                   port     |-> Atoi(Written("start")[2]),
                   host     |-> Written("start")[3],
                   telePort |-> Atoi(Written("start")[4])]
        /\ ExistsAt(insPath(1, "restarts"), StoreRev) =>
              getRestarts(1, StoreRev) = [fail |-> Written("restarts")[1],
                                          oom  |-> Written("restarts")[2]]
        /\ getInstanceStatus(1, StoreRev) = StatusByRule

\* ---------------------------------------------------------------------------
\* The environment variables of an App, through the handles of several
\* callers.  A key is the sequence of its characters.

Keys == {<<"a", "_", "b">>, <<"a", "-", "b">>, <<"a", "b">>}

Values == {"x", "y"}

EnvCallers == {1, 2}

MaxEnvWrites == 4

\* strings.Replace(k, "_", "-", -1), taken as it is read.
envKeyAsGiven(k) == k

envKey(k) == [n \in 1..Len(k) |-> IF k[n] = "_" THEN "-" ELSE k[n]]

envFile(k) == appPath(<<"env", envKey(k)>>)

\* App.GetEnvironmentVar through a handle whose directory is at revision r.
GetEnvironmentVar(r, k) ==
    IF ExistsAt(envFile(k), r) THEN GetAt(envFile(k), r)[1] ELSE "NOT_FOUND"

\* Store.NewApp, line 34, as getApp calls it: Env is an empty map, which
\* getApp does not fill.  A key that is not in the map has the value "".
NoEnv == [k \in Keys |-> ""]

idleApp ==
    [rev |-> 1, pc |-> "idle", op |-> "", key |-> <<>>, val |-> "", err |-> "", Env |-> NoEnv]

\* App.SetEnvironmentVar, lines 211-213: a.Env[k] = v unless k is present.
EnvAfterSet(a, k, v) == IF a.Env[k] = "" THEN [a.Env EXCEPT ![k] = v] ELSE a.Env

\* Store.GetApp: a handle at the latest revision.
EnvGetApp(c) ==
    /\ rg.apps[c].pc = "idle" /\ rg.apps[c].rev < StoreRev
    /\ rg' = [rg EXCEPT !.apps[c] = [idleApp EXCEPT !.rev = StoreRev]]
    /\ UNCHANGED <<log, pp, issued, hs, sc, ws>>

\* App.SetEnvironmentVar: the file is set against the handle's revision, Env
\* takes the key as it was given, and the handle joins the write.
SetEnvironmentVar(c, k, v) ==
    /\ rg.apps[c].pc = "idle" /\ StoreRev < 1 + MaxEnvWrites
    /\ LET a == [rg.apps[c] EXCEPT !.op = "Set", !.key = k, !.val = v]
       IN  IF CasOk(envFile(k), a.rev)
              THEN /\ log' = SetFile(envFile(k), <<v>>, a.rev, c)
                   /\ rg' = [rg EXCEPT !.apps[c] = [a EXCEPT !.rev = StoreRev + 1, !.err = "ok",
                                                           !.Env = EnvAfterSet(a, k, v)]]
              ELSE /\ rg' = [rg EXCEPT !.apps[c] = [a EXCEPT !.err = "REV_MISMATCH"]]
                   /\ UNCHANGED log
    /\ UNCHANGED <<pp, issued, hs, sc, ws>>

\* App.DelEnvironmentVar, lines 220-223: the file is deleted against the
\* handle's revision; the Del of a file that does not exist writes nothing
\* and is taken as an error of the store.
DelEnvironmentVar(c, k) ==
    /\ rg.apps[c].pc = "idle" /\ StoreRev < 1 + MaxEnvWrites
    /\ LET a == [rg.apps[c] EXCEPT !.op = "Del", !.key = k, !.val = ""]
       IN  IF ~ExistsAt(envFile(k), StoreRev)
              THEN /\ rg' = [rg EXCEPT !.apps[c] = [a EXCEPT !.err = "NOENT"]]
                   /\ UNCHANGED log
           ELSE IF CasOk(envFile(k), a.rev)
              THEN /\ log' = DelFile(envFile(k), a.rev, c)
                   /\ rg' = [rg EXCEPT !.apps[c] = [a EXCEPT !.pc = "del_join", !.err = ""]]
              ELSE /\ rg' = [rg EXCEPT !.apps[c] = [a EXCEPT !.err = "REV_MISMATCH"]]
                   /\ UNCHANGED log
    /\ UNCHANGED <<pp, issued, hs, sc, ws>>

\* App.DelEnvironmentVar, lines 224-229: FastForward, and the handle joins it.
DelEnvironmentVarJoin(c) ==
    /\ rg.apps[c].pc = "del_join"
    /\ rg' = [rg EXCEPT !.apps[c] = [@ EXCEPT !.pc = "idle", !.rev = StoreRev, !.err = "ok"]]
    /\ UNCHANGED <<log, pp, issued, hs, sc, ws>>

\* The app is registered and every caller holds a handle of it; the names of
\* the app's files are sequences here, as the keys are.
InitEnv ==
    /\ log = <<[p |-> appPath(<<"registered">>), set |-> TRUE, v |-> <<"ts">>, at |-> 0, by |-> 0]>>
    /\ pp = <<>>
    /\ issued = <<>>
    /\ hs = <<>>
    /\ sc = <<>>
    /\ ws = <<>>
    /\ rg = [test |-> FALSE, apps |-> [c \in EnvCallers |-> idleApp]]

NextEnv ==
    \E c \in EnvCallers :
        \/ EnvGetApp(c)
        \/ \E k \in Keys, v \in Values : SetEnvironmentVar(c, k, v)
        \/ \E k \in Keys : DelEnvironmentVar(c, k)
        \/ DelEnvironmentVarJoin(c)

SpecEnv == InitEnv /\ [][NextEnv]_vars

\* Keys k and kk differ only in "_" versus "-".
SameVar(k, kk) ==
    /\ Len(k) = Len(kk)
    /\ \A n \in 1..Len(k) : k[n] = kk[n] \/ {k[n], kk[n]} = {"_", "-"}

\* Mutation n sets or deletes the variable of a key like k.
IsEnvWrite(n, k) == \E kk \in Keys : SameVar(kk, k) /\ log[n].p = appPath(<<"env", kk>>)

\* What the last Set or Del of a key like k up to revision r left.
LastEnv(r, k) ==
    LET W == {n \in 1..r : IsEnvWrite(n, k)}
    IN  IF W = {} THEN "NOT_FOUND"
        ELSE LET n == CHOOSE m \in W : \A j \in W : j <= m
             IN  IF log[n].set THEN log[n].v[1] ELSE "NOT_FOUND"

\* C27: keys that differ only in "_" versus "-" name one variable: through
\* the handle that SetEnvironmentVar(k, v) returned, GetEnvironmentVar(k')
\* returns v; through the handle that DelEnvironmentVar(k) returned it returns
\* NOT_FOUND unless the variable was set again before the handle's revision;
\* and through any handle it returns what the last Set or Del of such a key
\* up to the handle's revision left.
C27_EnvKeys ==
    \A c \in EnvCallers : \A k \in Keys :
        LET a == rg.apps[c]
        IN  /\ a.pc = "idle" =>
                  GetEnvironmentVar(a.rev, k) = LastEnv(a.rev, k)
            /\ (a.pc = "idle" /\ a.op = "Set" /\ a.err = "ok" /\ SameVar(k, a.key)) =>
                  GetEnvironmentVar(a.rev, k) = a.val
            /\ (a.pc = "idle" /\ a.op = "Del" /\ a.err = "ok" /\ SameVar(k, a.key)
                  /\ LastEnv(a.rev, k) = "NOT_FOUND") =>
                  GetEnvironmentVar(a.rev, k) = "NOT_FOUND"

\* One caller has set a_b and reads the value under a-b; the other has
\* deleted a-b after that and reads NOT_FOUND under a_b.
C27_Witness ==
    \E c, d \in EnvCallers :
        /\ rg.apps[c].pc = "idle" /\ rg.apps[c].op = "Set" /\ rg.apps[c].err = "ok"
        /\ rg.apps[c].key = <<"a", "_", "b">>
        /\ GetEnvironmentVar(rg.apps[c].rev, <<"a", "-", "b">>) = rg.apps[c].val
        /\ rg.apps[d].pc = "idle" /\ rg.apps[d].op = "Del" /\ rg.apps[d].err = "ok"
        /\ rg.apps[d].key = <<"a", "-", "b">>
        /\ rg.apps[d].rev > rg.apps[c].rev
        /\ GetEnvironmentVar(rg.apps[d].rev, <<"a", "_", "b">>) = "NOT_FOUND"

\* ---------------------------------------------------------------------------
\* Procs registered one after the other on a freshly initialised store.

NumSeqProcs == 3

SeqProcs == 1..NumSeqProcs

InitSeq ==
    /\ log = <<[p |-> nextPortPath, set |-> TRUE, v |-> <<startPort>>, at |-> 0, by |-> 0]>>
    /\ pp = [p \in SeqProcs |-> idleProc]
    /\ issued = <<>>
    /\ hs = <<>>
    /\ sc = <<>>
    /\ ws = <<>>
    /\ rg = <<>>

\* A Register call has begun and not returned.
Registering == \E q \in SeqProcs : pp[q].pc \notin {"idle", "done", "conflict", "error"}

\* Register is called for any proc, but only when no call is running.
NextSeq ==
    \E p \in SeqProcs :
        \/ ~Registering /\ PRegBegin(p)
        \/ PClaimRead(p)
        \/ PClaimSet(p)
        \/ PSave(p)

SpecSeq == InitSeq /\ [][NextSeq]_vars

\* The procs whose Register has returned with success, and how many were
\* registered before proc p.
Registered == {p \in SeqProcs : pp[p].pc \in {"done", "conflict"}}

RegisteredBefore(p) ==
    {q \in Registered : LastMut(procPath(q, "port"), StoreRev) < LastMut(procPath(p, "port"), StoreRev)}

\* Procs 1, 2 and 3 were registered in this order.
InOrder123 ==
    /\ {1, 2, 3} \subseteq Registered
    /\ RegisteredBefore(1) = {}
    /\ RegisteredBefore(2) = {1}
    /\ RegisteredBefore(3) = {1, 2}

\* C28 as stated: procs p1, p2, p3 registered one after the other on a fresh
\* store hold ports 8000, 8001, 8002 and control ports 8003, 8004, 8005, and
\* /next-port is 8006.
C28_PortsThenControlPorts ==
    InOrder123 /\ ~Registering /\ Registered = {1, 2, 3} =>
        /\ \A p \in {1, 2, 3} :
              /\ pp[p].Port = startPort + (p - 1)
              /\ pp[p].ControlPort = startPort + 3 + (p - 1)
        /\ NextPortValue = startPort + 6

\* C28, amended: the proc registered n-th on a fresh store holds port
\* 8000 + 2(n-1) and control port 8000 + 2(n-1) + 1, the files port and
\* port-control hold them, and between calls /next-port is 8000 plus twice the
\* number of procs registered: p1, p2, p3 hold 8000/8001, 8002/8003 and
\* 8004/8005 and /next-port is 8006.
C28_PortPairsInOrder ==
    /\ \A p \in Registered :
          /\ pp[p].Port = startPort + 2 * Cardinality(RegisteredBefore(p))
          /\ pp[p].ControlPort = pp[p].Port + 1
          /\ GetAt(procPath(p, "port"), StoreRev) = <<pp[p].Port>>
          /\ GetAt(procPath(p, "port-control"), StoreRev) = <<pp[p].ControlPort>>
    /\ ~Registering => NextPortValue = startPort + 2 * Cardinality(Registered)

\* p1, p2 and p3 have been registered in this order, and the counter stands
\* at 8006.
C28_Witness ==
    /\ InOrder123 /\ ~Registering
    /\ pp[1].Port = 8000 /\ pp[1].ControlPort = 8001
    /\ pp[2].Port = 8002 /\ pp[2].ControlPort = 8003
    /\ pp[3].Port = 8004 /\ pp[3].ControlPort = 8005
    /\ NextPortValue = 8006

\* ---------------------------------------------------------------------------
\* Store.GetScale through a Store handle of its own, beside the Scale calls
\* of another client.  rg.store is that handle: rev is the revision of its
\* snapshot, scale what GetScale returned last and at the latest revision of
\* the store when it was called.

\* Snapshot.Stat(procInstancesPath, rev): the number of entries the directory
\* has at store revision r, none when it does not exist.
Stat(r) == Cardinality({id \in InsIds : ExistsAt(procInstancesPath(id), r)})

\* The revision GetScale hands to Stat, as it would be with the snapshot it
\* fast-forwarded to.
StatRevLatest(s) == StoreRev

StatRev(s) == s.rev

\* Store.FastForward: the client goes on with a Store handle at the latest
\* revision.
StoreFastForward ==
    /\ rg.store.rev < StoreRev
    /\ rg' = [rg EXCEPT !.store = [rev |-> StoreRev, scale |-> -1, at |-> 0]]
    /\ UNCHANGED <<log, pp, issued, hs, sc, ws>>

\* GetScale, lines 1493-1511: FastForward, then Stat with the revision of the
\* handle's snapshot; the handle keeps its snapshot.
GetScale ==
    /\ rg' = [rg EXCEPT !.store.scale = Stat(StatRev(rg.store)), !.store.at = StoreRev]
    /\ UNCHANGED <<log, pp, issued, hs, sc, ws>>

InitGetScale ==
    /\ \E n \in 0..MaxInit :
          \E envs \in [1..n -> Envs] : \E sts \in [1..n -> InitStatuses] :
             log = AppWrites \o PreparedUpTo(n, envs, sts)
    /\ hs = [h \in Handles |-> newHandle(0, 0, "")]
    /\ sc = idleScale
    /\ ws = <<>>
    /\ rg = [test |-> FALSE, store |-> [rev |-> StoreRev, scale |-> -1, at |-> 0]]
    /\ pp = <<>>
    /\ issued = <<>>

NextGetScale ==
    \/ \E env \in ScaleEnvs : \E factor \in -1..MaxFactor : ScaleBegin(env, factor)
    \/ ScaleRegister
    \/ ScaleStop
    \/ StoreFastForward
    \/ GetScale

SpecGetScale == InitGetScale /\ [][NextGetScale]_vars

\* C29: GetScale returns the number of entries under the instances directory
\* of (app, rev, proc) as of the latest store revision at the time of the
\* call, however old the snapshot of the Store handle is, and 0 when the
\* directory does not exist.
C29_GetScaleLatest ==
    rg.store.at # 0 => rg.store.scale = Stat(rg.store.at)

\* ---------------------------------------------------------------------------
\* Proc.Register under fair scheduling: a call that has begun goes on, and the
\* store answers each of its requests.
FairSpecPort ==
    SpecPort /\ \A p \in Procs : WF_vars(PClaimRead(p) \/ PClaimSet(p) \/ PSave(p))

\* Proc p is in its first and in its second call of claimNextPort.
Claiming1(p) == pp[p].pc \in {"read1", "cas1"}

Claiming2(p) == pp[p].pc \in {"read2", "cas2"}

\* The claims of other callers committed after revision r.
CompetingClaims(p, r) ==
    {k \in (r + 1)..StoreRev : log[k].p = nextPortPath /\ log[k].by # p}

\* The revision at which the claimNextPort call that counts pp[p].tries began.
ClaimBegan(p) ==
    IF pp[p].pc \in {"read1", "cas1", "port"} THEN pp[p].sp
    ELSE LastMut(procPath(p, "port"), StoreRev)

\* The Set of p's claimNextPort is refused in this step.
ClaimRefused(p) ==
    /\ pp[p].pc \in {"cas1", "cas2"}
    /\ pp'[p].pc \in {"read1", "read2"}

\* C30: under fair scheduling every claimNextPort call returns a port; a
\* refused Set is caused by the claim another caller committed after the call
\* read /next-port, and a call is refused no more often than other callers
\* committed claims since it began.
C30_ClaimTerminates ==
    /\ \A p \in Procs : (Claiming1(p) ~> pp[p].Port # 0)
    /\ \A p \in Procs : (Claiming2(p) ~> pp[p].ControlPort # 0)
    /\ [][\A p \in Procs : ClaimRefused(p) => CompetingClaims(p, pp[p].csp) # {}]_vars
    /\ [](\A p \in Procs :
            pp[p].pc \notin {"idle", "conflict"} =>
               pp[p].tries <= Cardinality(CompetingClaims(p, ClaimBegan(p))))

\* A caller holds a control port that claimNextPort returned after its Set
\* had been refused.
C30_Witness ==
    \E p \in Procs : pp[p].ControlPort # 0 /\ pp[p].tries > 0

\* ---------------------------------------------------------------------------
\* WaitClaimed and WaitStarted.  Handle 1 is of the client that claims,
\* unclaims and starts the instance, handle 2 of the client that waits.

Actors == {1}

Waiters == {2}

\* WaitClaimed, WaitStarted: waitStartPathStatus(s) begins.
WaitBegin(h, s) ==
    /\ hs[h].id # 0 /\ hs[h].pc = "idle"
    /\ hs' = [hs EXCEPT ![h] =
                 [Call(hs[h]) EXCEPT !.op = IF s = "claimed" THEN "WaitClaimed" ELSE "WaitStarted",
                                     !.pc = "wait", !.to = s, !.err = ""]]
    /\ UNCHANGED <<log, pp, issued, sc, ws, rg>>

\* One turn of waitStartPathStatus: Wait gives the first mutation of start
\* after the handle's revision, the handle joins it, three or more fields
\* make the handle running, one or two claimed, none leaves its status; the
\* loop ends when the status is the one waited for.
WaitStartPath(h) ==
    /\ hs[h].pc = "wait"
    /\ LET i == hs[h]
           K == {k \in (i.rev + 1)..StoreRev : log[k].p = insPath(i.id, "start")}
       IN  /\ K # {}
           /\ LET k == CHOOSE m \in K : \A j \in K : m <= j
                  fields == IF log[k].set THEN ListFields(log[k].v) ELSE <<>>
                  st == IF Len(fields) >= 3 THEN "running"
                        ELSE IF Len(fields) > 0 THEN "claimed" ELSE i.status
                  j == [i EXCEPT !.rev = k, !.status = st]
              IN  hs' = [hs EXCEPT ![h] = IF st = i.to THEN Return(j, "ok") ELSE j]
    /\ UNCHANGED <<log, pp, issued, sc, ws, rg>>

NextWait ==
    \/ \E h \in Actors :
          \/ \E host \in Hosts : ClaimBegin(h, host)
          \/ ClaimSet(h)
          \/ ClaimMark(h)
          \/ \E host \in Hosts : UnclaimBegin(h, host)
          \/ UnclaimSet(h)
          \/ \E host \in Hosts : StartedBegin(h, host)
          \/ StartedSave(h)
    \/ \E h \in Waiters :
          \/ GetInstance(h, 1)
          \/ \E s \in {"claimed", "running"} : WaitBegin(h, s)
          \/ WaitStartPath(h)

SpecWait == InitIns /\ [][NextWait]_vars

\* Mutation k is a write of start with n fields.
StartWrite(k, n) ==
    log[k].p = insPath(1, "start") /\ log[k].set /\ Len(ListFields(log[k].v)) = n

\* The number of fields of the start write a wait is for.
Awaited(op) == IF op = "WaitClaimed" THEN 1 ELSE 4

\* C31: WaitClaimed (WaitStarted) on a handle at revision r returns on the
\* first write of start with one field (with four fields) committed after r:
\* it returns on no other mutation of start, and while it waits it has passed
\* no such write.
C31_WaitReturnsOnArity ==
    [][\A h \in Waiters :
          /\ (hs[h].pc = "wait" /\ hs'[h].pc = "idle") =>
                StartWrite(hs'[h].rev, Awaited(hs'[h].op))
          /\ hs'[h].pc = "wait" =>
                \A k \in (hs'[h].was.rev + 1)..hs'[h].rev :
                    ~StartWrite(k, Awaited(hs'[h].op))
      ]_vars

\* ---------------------------------------------------------------------------
\* C32: Unclaim goes on only for an instance whose stored state is claimed,
\* and Exited only for one whose stored state is running or stopping: a call
\* that begins on an instance in another state, the claimer's included,
\* returns an error at once and writes nothing.
C32_UnclaimExitedByState ==
    [][\A h \in Handles :
          /\ (Begins(h, "Unclaim") /\ getInstanceStatus(hs[h].id, StoreRev) # "claimed") =>
                hs'[h].pc = "idle" /\ hs'[h].err # "ok" /\ log' = log
          /\ (Begins(h, "Exited")
                /\ getInstanceStatus(hs[h].id, StoreRev) \notin {"running", "stopping"}) =>
                hs'[h].pc = "idle" /\ hs'[h].err # "ok" /\ log' = log
      ]_vars
\* ---------------------------------------------------------------------------
\* C33: once an Exited has returned without error, and as long as the stored
\* status is exited and no Unregister has moved the instance to done/<id>,
\* the lookup entry instances/<rev>/<id> exists at the latest revision, so
\* that Proc.GetInstances, which lists that directory, enumerates the
\* instance.
C33_ExitedKeepsLookup ==
    \A h \in Handles :
        (/\ Returned(h, "Exited") /\ hs[h].err = "ok"
         /\ getInstanceStatus(hs[h].id, StoreRev) = "exited"
         /\ ~ExistsAt(procDonePath(hs[h].id), StoreRev)
         /\ \A g \in Handles : hs[g].pc = "idle")
           => ExistsAt(procInstancesPath(hs[h].id), StoreRev)
\* ---------------------------------------------------------------------------
\* The start file of the instance of handle h.
StartOf(h) == insPath(hs[h].id, "start")

\* The handle's snapshot is older than the last write of start.
StaleOnStart(h) == LastMut(StartOf(h), StoreRev) > hs[h].rev

\* No host holds the claim at the latest revision and the instance is not done.
Claimable(h) ==
    /\ ExistsAt(StartOf(h), StoreRev)
    /\ Len(GetAt(StartOf(h), StoreRev)) = 0
    /\ ~IsDone(hs[h])

\* C34 as stated: a Claim never returns an error (INS_CLAIMED included) when
\* it returns in a state where no other call is in progress, start is empty
\* at the latest revision and the instance is not done, whatever the age of
\* the handle.
C34_ClaimSucceedsOnEmptyStart ==
    [][\A h \in Handles :
          (/\ Returns(h, "Claim") /\ Claimable(h)
           /\ \A g \in Handles \ {h} : hs[g].pc = "idle")
             => hs'[h].err = "ok"
      ]_vars

\* C34, amended: Claim returns INS_CLAIMED only when start names a host in the
\* handle's snapshot or has been written since the handle's revision; in
\* the latter case the Set of start is refused with INS_CLAIMED and writes
\* nothing, also when start is empty again; and the Set of a handle that is
\* not older than the last write of start writes start = host.
C34_ClaimRefusesStaleHandle ==
    [][\A h \in Handles :
          /\ (Returns(h, "Claim") /\ hs'[h].err = "INS_CLAIMED")
                => \/ Len(GetAt(StartOf(h), hs[h].rev)) > 0
                   \/ StaleOnStart(h)
          /\ (hs[h].pc = "claim_set" /\ hs'[h] # hs[h] /\ StaleOnStart(h))
                => hs'[h].pc = "idle" /\ hs'[h].err = "INS_CLAIMED" /\ log' = log
          /\ (hs[h].pc = "claim_set" /\ hs'[h] # hs[h] /\ ~StaleOnStart(h))
                => /\ Len(log') = Len(log) + 1
                   /\ log'[Len(log')].p = StartOf(h)
                   /\ log'[Len(log')].set
                   /\ log'[Len(log')].v = <<hs[h].host>>
      ]_vars

\* A Claim through a handle older than a Claim and an Unclaim of another
\* handle has returned INS_CLAIMED while start is empty and the instance is
\* not done.
C34_Witness ==
    \E h \in Handles :
        /\ Returned(h, "Claim") /\ hs[h].err = "INS_CLAIMED"
        /\ Claimable(h) /\ StaleOnStart(h)
        /\ Len(GetAt(StartOf(h), hs[h].rev)) = 0
        /\ \E j, k \in 1..StoreRev :
              /\ j < k /\ hs[h].rev < j
              /\ IsClaimWrite(j) /\ IsUnclaimWrite(k)
              /\ log[j].by # h /\ log[k].by # h
\* ---------------------------------------------------------------------------
\* C35: in the App that a SetEnvironmentVar(k, v) returned without error,
\* Env holds v under k, whatever Env held under k before the call.
C35_SetUpdatesEnv ==
    \A c \in EnvCallers :
        LET a == rg.apps[c]
        IN  (a.pc = "idle" /\ a.op = "Set" /\ a.err = "ok") => a.Env[a.key] = a.val
\* ---------------------------------------------------------------------------
\* The last Scale call has returned an error.
ScaleFailed == sc.pc = "idle" /\ sc.calls > 0 /\ sc.err # ""

\* C36 as stated: a Scale call that returned an error has written nothing:
\* the store is at the revision at which the call took its snapshot.
C36_FailedScaleWritesNothing == ScaleFailed => StoreRev = sc.sp

\* C36, amended: a Scale call that returned an error has registered no
\* instance; if the error is one of its checks (invalid input, negative
\* factor, missing rev, proc or env) it has written nothing; if it is
\* INVALID_STATE from a Stop, the stop files of the instances listed before
\* the first one that was not running are written and stay, and nothing else.
C36_FailedScaleKeepsStops ==
    ScaleFailed =>
        /\ \A k \in (sc.sp + 1)..StoreRev :
              log[k].set /\ \E id \in InsIds : log[k].p = insPath(id, "stop")
        /\ sc.err # "INVALID_STATE" => StoreRev = sc.sp
        /\ sc.err = "INVALID_STATE" =>
              LET all == Enumerated(sc.env, sc.sp)
                  sel == FirstOf(all, Cardinality(all) - sc.factor)
                  bad == {id \in sel : id \notin RunningListed}
              IN  /\ bad # {}
                  /\ StopMarked = {id \in sel : \A b \in bad : id < b}
                  /\ \A id \in StopMarked : ExistsAt(insPath(id, "stop"), StoreRev)

\* Scale to zero of two instances, the first running and the second not:
\* the call returned INVALID_STATE and the first instance is stop-marked.
C36_Witness ==
    /\ ScaleFailed /\ sc.err = "INVALID_STATE" /\ sc.factor = 0
    /\ StoreRev = sc.sp + 1
    /\ Enumerated(sc.env, sc.sp) = {1, 2}
    /\ ExistsAt(insPath(1, "stop"), StoreRev) /\ ~ExistsAt(insPath(1, "stop"), sc.sp)
    /\ getInstanceStatus(2, sc.sp) # "running"
\* ---------------------------------------------------------------------------
\* The status file of instance id records failed, lost or exited at the
\* latest revision.
StatusTerminated(id) ==
    /\ ExistsAt(insPath(id, "status"), StoreRev)
    /\ GetAt(insPath(id, "status"), StoreRev)[1] \in {"failed", "lost", "exited"}

\* C37: a Claim that begins on an instance whose status file records failed,
\* lost or exited is rejected at once, whether or not start is empty, and no
\* Claim writes start or claims/<host> of such an instance.
C37_NoClaimAfterTermination ==
    [][\A h \in Handles :
          /\ (Begins(h, "Claim") /\ StatusTerminated(hs[h].id))
                => hs'[h].pc = "idle" /\ hs'[h].err # "ok"
          /\ (hs[h].op = "Claim" /\ hs[h].pc # "idle" /\ StatusTerminated(hs[h].id))
                => log' = log \/ log'[Len(log')].by # h
      ]_vars
(***************************************************************************)
(* Unregister through one handle while the calls of the other handles,     *)
(* obtained before it, interleave with it and follow it.                   *)
(***************************************************************************)
Unregisterers == {1}

\* The calls write no more often than this.
MaxUnregWrites == 8

InitUnreg ==
    /\ log = RegisterWrites(1, "env", 0, 0)
    /\ hs = [h \in Handles |-> newHandle(1, 4, "pending")]
    /\ pp = <<>>
    /\ issued = <<>>
    /\ sc = <<>>
    /\ ws = <<>>
    /\ rg = [test |-> TRUE]

\* The calls may still write.
MayWrite == StoreRev < 4 + MaxUnregWrites

NextUnreg ==
    \/ \E h \in Unregisterers : MayWrite /\ UnregisterBegin(h, TestHost)
    \/ \E h \in Unregisterers : MayWrite /\ UnregisterDel(h)
    \/ \E h \in Handles : MayWrite /\ UpdateLookupSave(h)
    \/ \E h \in Handles : MayWrite /\ UpdateLookupDel(h)
    \/ \E h \in Handles \ Unregisterers :
          \/ MayWrite /\ ClaimBegin(h, TestHost)
          \/ MayWrite /\ ClaimSet(h)
          \/ MayWrite /\ ClaimMark(h)
          \/ MayWrite /\ StartedBegin(h, TestHost)
          \/ MayWrite /\ StartedSave(h)
          \/ MayWrite /\ RestartedBegin(h)
          \/ MayWrite /\ RestartedSet(h)
          \/ MayWrite /\ StopBegin(h)
          \/ MayWrite /\ StopSet(h)
          \/ MayWrite /\ FailedBegin(h, TestHost)
          \/ MayWrite /\ LostBegin(h, TestHost)
          \/ MayWrite /\ UpdStatus(h)
          \/ MayWrite /\ UpdateLookup(h)
          \/ MayWrite /\ LockBegin(h, TestHost)
          \/ MayWrite /\ LockSet(h)

SpecUnreg == InitUnreg /\ [][NextUnreg]_vars

\* C38: once an Unregister of the instance has returned without error, no
\* file of /instances/<id>/ exists, in that state and in every later one,
\* whatever calls were in progress during the Unregister or are made
\* afterwards through handles obtained before it.
C38_NoFileAfterUnregister ==
    \A h \in Handles :
        (Returned(h, "Unregister") /\ hs[h].err = "ok")
           => \A n \in 1..Len(InsFiles) : ~ExistsAt(insPath(hs[h].id, InsFiles[n]), StoreRev)
\* ---------------------------------------------------------------------------
\* C40: when a Failed on an instance that was failed already, or a Lost on
\* one that was lost already, has returned without error (and no Unregister
\* was called), the entry failed/<id>, or lost/<id>, exists and holds the
\* Termination that the first call wrote.
C40_FailedLostIdempotent ==
    \A h \in Handles :
        LET st == IF hs[h].op = "Failed" THEN "failed" ELSE "lost"
            entry == procStatusPath(hs[h].id, st)
        IN  (/\ hs[h].op \in {"Failed", "Lost"} /\ hs[h].pc = "idle" /\ hs[h].err = "ok"
             /\ hs[h].was.status = st
             /\ \A g \in Handles : hs[g].op # "Unregister")
               => /\ ExistsAt(entry, StoreRev)
                  /\ GetAt(entry, StoreRev).term = log[FirstSet(entry)].v.term
\* ---------------------------------------------------------------------------
\* The event types that enrich loads the App for.
AppScoped == {Ev.AppReg, Ev.RevReg, Ev.ProcReg, Ev.ProcAttrs}

\* The Source of event e, sent for a set, is an object that was found.
SourceLoaded(e) ==
    /\ e.Source.kind \in {"App", "Revision", "Proc", "Instance"}
    /\ e.Source.kind = "Instance" => e.Source.val # <<"">>

====
